---- MODULE Spec2Model ----
(***************************************************************************)
(* State-machine model of the Bali Exception scraper:                      *)
(*   - BaliExceptionScraper.scrape_all_urls      (URL discovery loop)      *)
(*   - BaliExceptionScraper.scrape_property_details (retrying detail loop) *)
(*   - the /bali-exception/scrape route that chains the two                *)
(* The browser and the target site are the environment: every wait,        *)
(* navigation and extraction outcome is a nondeterministic input.          *)
(***************************************************************************)
EXTENDS Integers, Sequences, FiniteSets, TLC

VARIABLES
    pc,                   \* control location of the running call
    entry,                \* which operation the caller invoked
    scraping_errors,      \* self.scraping_errors, the error ledger
    scraping_stats,       \* self.scraping_stats
    categories,           \* scrape_all_urls: the requested categories
    cat_idx,              \* scrape_all_urls: position of the for loop
    results,              \* scrape_all_urls: results dict, as ordered <<key, value>> pairs
    all_links,            \* scrape_all_urls: running list of the category
    current_page,         \* scrape_all_urls: page counter
    consecutive_failures, \* scrape_all_urls: failure counter
    hrefs_seen,           \* history: hrefs of the cards parsed so far in the category
    page_log,             \* history: outcome of every page iteration of the category
    loop_exit,            \* history: the statement that ended the category
    errors_at_landing,    \* history: ledger length when the category began
    visits,               \* history: page iterations made in this scrape_all_urls call
    shown,                \* history: urls some listing page of this call showed
    shown_twice,          \* history: urls two different listing pages of this call showed
    urls,                 \* scrape_property_details: the urls argument
    category,             \* scrape_property_details: the category argument
    url_idx,              \* scrape_property_details: position of the for loop
    retry,                \* scrape_property_details: attempts made for the url
    property_data,        \* scrape_property_details: <<>> is None, <<rec>> a record
    detail_results,       \* scrape_property_details: results list
    errors_at_call,       \* history: ledger length when the detail call began
    req_categories,       \* route: categories query parameter
    max_properties,       \* route: max_properties parameter
    unlimited,            \* route: unlimited parameter
    all_urls_with_category, \* route: flattened (url, category) pairs
    route_i,              \* route: position of the detail loop
    all_properties,       \* route: accumulated records
    response,             \* route: what the client receives
    driver,               \* self.driver: "none" (None), "live", or "quit" (after driver.quit())
    raised,               \* the exception that reached the caller, "none" when there is none
    calls,                \* history: operations the caller invoked in this session
    summary,              \* what get_scraping_summary returned last: <<>> or <<record>>
    fn_arg,               \* argument of the helper function under study
    fn_ret,               \* its return value: <<>> before the call, <<value>> after
    heap,                 \* two scrapers: the list and dict objects __init__ created
    scrapers,             \* two scrapers: each instance's attribute references
    actor                 \* two scrapers: the instance that made the last step

sessionVars == <<scraping_errors, scraping_stats>>
urlVars == <<categories, cat_idx, results, all_links, current_page,
             consecutive_failures, hrefs_seen, page_log, loop_exit,
             errors_at_landing, visits, shown, shown_twice>>
detailVars == <<urls, category, url_idx, retry, property_data, detail_results,
                errors_at_call>>
routeVars == <<req_categories, max_properties, unlimited, all_urls_with_category,
               route_i, all_properties, response>>
browserVars == <<driver, raised, calls, summary>>
auxVars == <<fn_arg, fn_ret, heap, scrapers, actor>>
vars == <<pc, entry, sessionVars, urlVars, detailVars, routeVars, browserVars,
          auxVars>>

(***************************************************************************)
(* Bounds of the model                                                     *)
(***************************************************************************)
MaxUrls == 2       \* longest urls argument of a direct scrape_property_details call
MaxCats == 2       \* longest categories request
MaxCards == 2      \* most card anchors on one listing page
MaxVisits == 3     \* most page iterations of one direct scrape_all_urls call
MaxRouteVisits == 2 \* most page iterations of the URL discovery of one route request
MaxProps == 2      \* largest max_properties of a route request
NegProps == 1      \* the smallest max_properties of a route request is -NegProps
MaxCalls == 2      \* most operations a caller invokes inside one with block
MaxSessionVisits == 2 \* most page iterations of one scrape_all_urls call of that caller
MaxSessionCats == 1 \* longest categories argument of that caller
MaxLedger == 6     \* longest ledger the summary is taken of
MaxPeerLedger == 2 \* longest ledger of each of two scrapers side by side
MaxPeerCount == 2  \* largest urls_scraped of each of them
MaxText == 4       \* longest text drawn from NumberAlphabet for _extract_number
MaxNextPages == 1  \* most pages of a category that offer a next-page control
MaxLoopCats == 1   \* categories of the call whose page loop is followed to its end
MaxParagraphs == 3 \* most elements the description selector finds on a detail page
MaxFeatures == 2   \* most label/value pairs of the feature list of a detail page
MaxDescWords == 2  \* most words joined into a description for _detect_pool_info
MaxItems == 1      \* most items of key_information, key_features, amenities
MaxScrolls == 3    \* largest max_scrolls _scroll_to_bottom is called with
MaxHeight == 3     \* largest scroll height the page is measured at
MaxSaved == 2      \* most records a request has for the Google Sheets export

(***************************************************************************)
(* Values                                                                  *)
(***************************************************************************)
None == "None"
NoUrl == <<>>

\* self.extractors keys
Extractors == {"for-sale", "for-rent"}
\* names a caller may send
CategoryNames == Extractors \cup {"bogus"}

get_base_url(cat) ==
    IF cat = "for-sale" THEN "https://baliexception.com"
                        ELSE "https://villas.baliexception.com"

get_endpoint(cat) == IF cat = "for-sale" THEN "/properties" ELSE "/find-rental/"

Hosts == {get_base_url(c) : c \in Extractors}
Paths == {"villa-a"}
\* an absolute detail-page URL: <<host, path>>
Urls == Hosts \X Paths

\* f"{full_url}?page={current_page}"
PageUrl(cat, n) == <<get_base_url(cat), get_endpoint(cat), "?page=", n>>
full_url(cat) == <<get_base_url(cat), get_endpoint(cat)>>

Range(s) == {s[k] : k \in 1..Len(s)}
SeqsUpTo(S, n) == UNION {[1..k -> S] : k \in 0..n}
NoDup(s) == \A a, b \in 1..Len(s) : s[a] = s[b] => a = b
Count(s, P(_)) == Cardinality({k \in 1..Len(s) : P(s[k])})
\* every ordering of a finite set
Orderings(S) == {s \in [1..Cardinality(S) -> S] : Range(s) = S}

(***************************************************************************)
(* Error ledger and statistics                                             *)
(***************************************************************************)
InitStats == [urls_scraped |-> 0, urls_failed |-> 0, properties_extracted |-> 0,
              start_time |-> None, end_time |-> None]

ErrorEntry_no_url(error_type, url, cat) ==
    [error_type |-> error_type, url |-> NoUrl, category |-> cat]

ErrorEntry(error_type, url, cat) ==
    [error_type |-> error_type, url |-> url, category |-> cat]

add_error_dropped(errs, error_type, url, cat) == errs

add_error_twice(errs, error_type, url, cat) ==
    Append(Append(errs, ErrorEntry(error_type, url, cat)),
           ErrorEntry(error_type, url, cat))

\* _add_error: the ledger part
add_error(errs, error_type, url, cat) ==
    Append(errs, ErrorEntry(error_type, url, cat))

add_error_stats_skipped(stats) == stats

\* _add_error: the counter part
add_error_stats(stats) == [stats EXCEPT !.urls_failed = @ + 1]

update_stats_counting_attempts(stats, action) ==
    IF action = "url_scraped"
      THEN [stats EXCEPT !.urls_scraped = @ + 3]
      ELSE IF action = "property_extracted"
        THEN [stats EXCEPT !.properties_extracted = @ + 1]
        ELSE stats

\* _update_stats(action)
update_stats(stats, action) ==
    CASE action = "start" -> [stats EXCEPT !.start_time = "set"]
      [] action = "end" -> [stats EXCEPT !.end_time = "set"]
      [] action = "url_scraped" -> [stats EXCEPT !.urls_scraped = @ + 1]
      [] action = "property_extracted" ->
            [stats EXCEPT !.properties_extracted = @ + 1]
      [] OTHER -> stats

(***************************************************************************)
(* Exceptions the browser raises and the except clauses that meet them     *)
(***************************************************************************)
\* selenium's TimeoutException, any other WebDriverException, and an
\* AttributeError such as a call on a missing element
ExceptionTypes == {"TimeoutException", "WebDriverException", "AttributeError"}

is_TimeoutException(exc) == exc = "TimeoutException"

\* an except clause narrowed to selenium's timeout
is_Exception_timeout_only(exc) == exc = "TimeoutException"

\* "except Exception": every one of them is an Exception
is_Exception(exc) == exc \in ExceptionTypes

\* what reaches the caller of a method whose except clauses met exc
propagated(exc, before) == IF is_Exception(exc) THEN before ELSE exc

(***************************************************************************)
(* scrape_property_details                                                 *)
(***************************************************************************)
max_retries_four == 3 + 1

max_retries == 3

\* what extract_property_details returns: the url it was given, and a title
\* that is the default (None for for-sale, '' for for-rent) or a heading text
DefaultTitle(cat) == IF cat = "for-sale" THEN None ELSE ""
Titles(cat) == {DefaultTitle(cat), "", "Villa Heading"}
listing_type(cat) == IF cat = "for-sale" THEN "for sale" ELSE "for rent"
Record(url, cat, title) ==
    [url |-> url, listing_type |-> listing_type(cat), title |-> title]

Truthy(title) == title \notin {None, ""}

has_title_any(pd) == pd # <<>>

\* property_data and property_data.get('title')
has_title(pd) == pd # <<>> /\ Truthy(pd[1].title)

\* outcomes of one attempt: the extractor returned a record, or something raised
AttemptOutcomes(cat) == {"raise"} \cup Titles(cat)

CallDetails_unguarded(us, cat) ==
    /\ urls' = us
    /\ category' = cat
    /\ errors_at_call' = Len(scraping_errors)
    /\ retry' = 0
    /\ property_data' = <<>>
    /\ detail_results' = <<>>
    /\ url_idx' = 1
    /\ scraping_stats' = update_stats(scraping_stats, "start")
    /\ pc' = "detail_loop"
    /\ UNCHANGED scraping_errors

\* a caller invokes scrape_property_details(us, cat)
CallDetails(us, cat) ==
    /\ urls' = us
    /\ category' = cat
    /\ errors_at_call' = Len(scraping_errors)
    /\ retry' = 0
    /\ property_data' = <<>>
    /\ detail_results' = <<>>
    /\ IF cat \notin Extractors
         THEN /\ url_idx' = 0
              /\ pc' = "details_returned"
              /\ UNCHANGED sessionVars
         ELSE /\ url_idx' = 1
              /\ scraping_stats' = update_stats(scraping_stats, "start")
              /\ pc' = "detail_loop"
              /\ UNCHANGED scraping_errors

\* head of "for i, url in enumerate(urls)"
DetailNextUrl ==
    /\ pc = "detail_loop"
    /\ url_idx <= Len(urls)
    /\ scraping_stats' = update_stats(scraping_stats, "url_scraped")
    /\ retry' = 0
    /\ property_data' = <<>>
    /\ pc' = "detail_attempt"
    /\ UNCHANGED <<scraping_errors, urls, category, url_idx, detail_results,
                   errors_at_call>>
    /\ UNCHANGED <<entry, urlVars, routeVars>>
    /\ UNCHANGED <<browserVars, auxVars>>

\* one pass of "for retry in range(max_retries)"; an exception of the attempt
\* meets "except Exception" at the end of the pass
DetailAttempt ==
    /\ pc = "detail_attempt"
    /\ retry < max_retries
    /\ \E outcome \in AttemptOutcomes(category), exc \in ExceptionTypes :
         /\ property_data' =
              IF outcome = "raise" THEN property_data
              ELSE <<Record(urls[url_idx], category, outcome)>>
         /\ raised' = IF outcome = "raise" THEN propagated(exc, raised)
                                           ELSE raised
         /\ IF outcome # "raise" /\ has_title(property_data')
              THEN /\ retry' = retry
                   /\ pc' = "detail_finish"
              ELSE /\ retry' = retry + 1
                   /\ pc' = IF retry + 1 < max_retries THEN "detail_attempt"
                                                       ELSE "detail_finish"
    /\ UNCHANGED <<sessionVars, urls, category, url_idx, detail_results,
                   errors_at_call>>
    /\ UNCHANGED <<entry, urlVars, routeVars>>
    /\ UNCHANGED <<driver, calls, summary, auxVars>>

\* after the retry loop: accept the record or record the failure
DetailFinishUrl ==
    /\ pc = "detail_finish"
    /\ IF has_title(property_data)
         THEN /\ detail_results' = Append(detail_results, property_data[1])
              /\ scraping_stats' =
                    update_stats(scraping_stats, "property_extracted")
              /\ UNCHANGED scraping_errors
         ELSE /\ scraping_errors' =
                    add_error(scraping_errors, "extraction_failed",
                              urls[url_idx], category)
              /\ scraping_stats' = add_error_stats(scraping_stats)
              /\ UNCHANGED detail_results
    /\ url_idx' = url_idx + 1
    /\ pc' = "detail_loop"
    /\ UNCHANGED <<urls, category, retry, property_data, errors_at_call>>
    /\ UNCHANGED <<entry, urlVars, routeVars>>
    /\ UNCHANGED <<browserVars, auxVars>>

\* the for loop is exhausted: _update_stats('end'); return results. The
\* arguments and the returned list stay visible to the caller, the other
\* locals go with the frame.
DetailReturn ==
    /\ pc = "detail_loop"
    /\ url_idx > Len(urls)
    /\ scraping_stats' = update_stats(scraping_stats, "end")
    /\ retry' = 0
    /\ property_data' = <<>>
    /\ pc' = "details_returned"
    /\ UNCHANGED <<scraping_errors, urls, category, url_idx, detail_results,
                   errors_at_call>>
    /\ UNCHANGED <<entry, urlVars, routeVars>>
    /\ UNCHANGED <<browserVars, auxVars>>

(***************************************************************************)
(* Category extractors: extract_urls_from_page                             *)
(***************************************************************************)
\* the href attribute of a card anchor: absent, "/path", "path" or
\* "http..host/path"
NoHref == [form |-> "none", host |-> "", path |-> ""]
Hrefs ==
    {[form |-> f, host |-> "", path |-> p] : f \in {"rooted", "bare"}, p \in Paths}
    \cup {[form |-> "abs", host |-> h, path |-> p] : h \in Hosts, p \in Paths}
Cards == Hrefs \cup {NoHref}

\* the three branches that build full_url from href
ResolveHref(cat, h) ==
    IF h.form = "abs" THEN <<h.host, h.path>>
                      ELSE <<get_base_url(cat), h.path>>

extract_urls_drop_last(cat, cards) ==
    LET kept == SelectSeq(cards, LAMBDA h : h.form # "none")
    IN [k \in 1..(Len(kept) - 1) |-> ResolveHref(cat, kept[k])]

extract_urls_from_page(cat, cards) ==
    LET kept == SelectSeq(cards, LAMBDA h : h.form # "none")
    IN [k \in 1..Len(kept) |-> ResolveHref(cat, kept[k])]

(***************************************************************************)
(* scrape_all_urls                                                         *)
(***************************************************************************)
\* a Python dict as its <<key, value>> pairs in insertion order
DictHas(d, k) == \E i \in 1..Len(d) : d[i][1] = k
DictGet(d, k) == d[CHOOSE i \in 1..Len(d) : d[i][1] = k][2]
DictKeys(d) == {d[i][1] : i \in 1..Len(d)}
DictSet_append(d, k, v) == Append(d, <<k, v>>)

DictSet(d, k, v) ==
    IF DictHas(d, k)
      THEN [i \in 1..Len(d) |-> IF d[i][1] = k THEN <<k, v>> ELSE d[i]]
      ELSE Append(d, <<k, v>>)

max_consecutive_failures_four == 3 + 1

\* max_consecutive_failures = 3
max_consecutive_failures == 3
empty_page_limit == 2

new_links_all(page_links, links) == page_links

new_links_of_fresh_pages(page_links, links) ==
    IF \E k \in 1..Len(page_links) : page_links[k] \in Range(links)
      THEN <<>> ELSE page_links

\* [link for link in page_links if link not in all_links]
new_links(page_links, links) ==
    SelectSeq(page_links, LAMBDA l : l \notin Range(links))

list_as_is(links) == {links}

\* list(set(all_links)): the set's iteration order is not fixed
list_of_set(links) == Orderings(Range(links))

landing_failed_result_missing(res, cat) == res

\* results[category] = [] after the landing page failed to load
landing_failed_result(res, cat) == DictSet(res, cat, <<>>)

\* the model follows a call for at most this many page iterations
\* with a next-page control on at most MaxNextPages pages no run of the
\* page loop has more iterations than this: two failed pages can precede
\* each page that offers the control, and three iterations end the loop
\* once it is offered no more
LoopIterations == 3 * (MaxNextPages + 1)

VisitBudget ==
    CASE entry = "route" -> MaxRouteVisits
      [] entry = "session" -> MaxSessionVisits
      [] entry = "loop" -> LoopIterations
      [] OTHER -> MaxVisits

PageEvent(outcome, next) == [outcome |-> outcome, next |-> next]

\* the pages so far on which navigate_to_next_page found its control
Clicks(log) == Cardinality({k \in 1..Len(log) : log[k].next = "clicked"})

\* what navigate_to_next_page can return on this page: the control is
\* clicked or absent; in the specification of the page loop on a site with
\* finitely many pages it is offered on at most MaxNextPages pages
NextOffers ==
    IF entry = "loop" /\ Clicks(page_log) >= MaxNextPages
      THEN {"absent"}
      ELSE {"absent", "clicked"}
PageFailures == {"timeout", "page_scraping_failed", "url_extraction_failed"}

\* a caller invokes scrape_all_urls(cats)
CallUrls(cats) ==
    /\ categories' = cats
    /\ results' = <<>>
    /\ cat_idx' = 1
    /\ pc' = "urls_for"
    /\ visits' = 0
    /\ shown' = {}
    /\ shown_twice' = {}
    /\ UNCHANGED <<all_links, current_page, consecutive_failures, hrefs_seen,
                   page_log, loop_exit, errors_at_landing>>

\* "if category not in self.extractors": ledger entry, continue
UrlsInvalidCategory ==
    /\ pc = "urls_for"
    /\ cat_idx <= Len(categories)
    /\ categories[cat_idx] \notin Extractors
    /\ scraping_errors' =
          add_error(scraping_errors, "invalid_category", NoUrl,
                    categories[cat_idx])
    /\ scraping_stats' = add_error_stats(scraping_stats)
    /\ cat_idx' = cat_idx + 1
    /\ loop_exit' = "invalid_category"
    /\ UNCHANGED <<pc, categories, results, all_links, current_page,
                   consecutive_failures, hrefs_seen, page_log,
                   errors_at_landing, visits, shown, shown_twice>>
    /\ UNCHANGED <<entry, detailVars, routeVars>>
    /\ UNCHANGED <<browserVars, auxVars>>

\* self.driver.get(full_url) raises and meets "except Exception": ledger
\* entry, empty list, continue
UrlsLandingFailed ==
    /\ pc = "urls_for"
    /\ cat_idx <= Len(categories)
    /\ categories[cat_idx] \in Extractors
    /\ \E exc \in ExceptionTypes : raised' = propagated(exc, raised)
    /\ scraping_errors' =
          add_error(scraping_errors, "page_load_failed",
                    full_url(categories[cat_idx]), categories[cat_idx])
    /\ scraping_stats' = add_error_stats(scraping_stats)
    /\ results' = landing_failed_result(results, categories[cat_idx])
    /\ cat_idx' = cat_idx + 1
    /\ loop_exit' = "landing_failed"
    /\ errors_at_landing' = Len(scraping_errors)
    /\ hrefs_seen' = {}
    /\ page_log' = <<>>
    /\ UNCHANGED <<pc, categories, all_links, current_page,
                   consecutive_failures, visits, shown, shown_twice>>
    /\ UNCHANGED <<entry, detailVars, routeVars>>
    /\ UNCHANGED <<driver, calls, summary, auxVars>>

\* the landing page loaded: the page loop starts
UrlsLandingLoaded ==
    /\ pc = "urls_for"
    /\ cat_idx <= Len(categories)
    /\ categories[cat_idx] \in Extractors
    /\ all_links' = <<>>
    /\ current_page' = 1
    /\ consecutive_failures' = 0
    /\ loop_exit' = "running"
    /\ errors_at_landing' = Len(scraping_errors)
    /\ hrefs_seen' = {}
    /\ page_log' = <<>>
    /\ pc' = "urls_page"
    /\ UNCHANGED <<sessionVars, categories, cat_idx, results, visits,
                   shown, shown_twice>>
    /\ UNCHANGED <<entry, detailVars, routeVars>>
    /\ UNCHANGED <<browserVars, auxVars>>

\* the except clause that meets an exception of one page iteration: the
\* inner "except Exception" around the parsing, "except TimeoutException" or
\* the "except Exception" after it for the wait
page_failure_kind(site, exc) ==
    IF site = "parse" THEN "url_extraction_failed"
    ELSE IF is_TimeoutException(exc) THEN "timeout"
    ELSE "page_scraping_failed"

\* the three except paths of one page iteration: the wait times out, the
\* wait raises something else, or parsing the page raises
UrlsPageFailed ==
    /\ pc = "urls_page"
    /\ consecutive_failures < max_consecutive_failures
    /\ visits < VisitBudget
    /\ visits' = visits + 1
    /\ \E site \in {"wait", "parse"}, exc \in ExceptionTypes :
         LET kind == page_failure_kind(site, exc)
         IN /\ scraping_errors' =
                  add_error(scraping_errors, kind,
                            PageUrl(categories[cat_idx], current_page),
                            categories[cat_idx])
            /\ page_log' = Append(page_log, PageEvent(kind, "none"))
            /\ raised' = propagated(exc, raised)
    /\ scraping_stats' = add_error_stats(scraping_stats)
    /\ consecutive_failures' = consecutive_failures + 1
    /\ current_page' = current_page + 1
    /\ IF consecutive_failures + 1 < max_consecutive_failures
         THEN pc' = "urls_page" /\ loop_exit' = loop_exit
         ELSE pc' = "urls_close" /\ loop_exit' = "while_condition"
    /\ UNCHANGED <<categories, cat_idx, results, all_links, hrefs_seen,
                   errors_at_landing, shown, shown_twice>>
    /\ UNCHANGED <<entry, detailVars, routeVars>>
    /\ UNCHANGED <<driver, calls, summary, auxVars>>

\* the cards are present and parsed, but no link came out of them
UrlsPageEmpty ==
    /\ pc = "urls_page"
    /\ consecutive_failures < max_consecutive_failures
    /\ visits < VisitBudget
    /\ visits' = visits + 1
    /\ \E cards \in SeqsUpTo({NoHref}, MaxCards), next \in NextOffers :
         /\ extract_urls_from_page(categories[cat_idx], cards) = <<>>
         /\ consecutive_failures' = consecutive_failures + 1
         /\ IF consecutive_failures + 1 >= empty_page_limit
              THEN /\ page_log' = Append(page_log, PageEvent("empty", "none"))
                   /\ pc' = "urls_close"
                   /\ loop_exit' = "break_empty"
                   /\ current_page' = current_page
              ELSE /\ page_log' = Append(page_log, PageEvent("empty", next))
                   /\ IF next = "absent"
                        THEN /\ pc' = "urls_close"
                             /\ loop_exit' = "no_next_page"
                             /\ current_page' = current_page
                        ELSE /\ pc' = "urls_page"
                             /\ loop_exit' = loop_exit
                             /\ current_page' = current_page + 1
    /\ UNCHANGED <<sessionVars, categories, cat_idx, results, all_links,
                   hrefs_seen, errors_at_landing, shown, shown_twice>>
    /\ UNCHANGED <<entry, detailVars, routeVars>>
    /\ UNCHANGED <<browserVars, auxVars>>

failures_after_links_kept(failures) == failures

\* else: consecutive_failures = 0  # Reset counter on success
failures_after_links(failures) == 0

\* the cards are present and links came out of them
UrlsPageParsed ==
    /\ pc = "urls_page"
    /\ consecutive_failures < max_consecutive_failures
    /\ visits < VisitBudget
    /\ visits' = visits + 1
    /\ \E cards \in SeqsUpTo(Cards, MaxCards), next \in NextOffers :
         LET cat == categories[cat_idx]
             page_links == extract_urls_from_page(cat, cards)
         IN /\ page_links # <<>>
            /\ consecutive_failures' = failures_after_links(consecutive_failures)
            /\ all_links' = all_links \o new_links(page_links, all_links)
            /\ hrefs_seen' = hrefs_seen \cup (Range(cards) \ {NoHref})
            /\ shown' = shown \cup Range(page_links)
            /\ shown_twice' = shown_twice \cup (shown \cap Range(page_links))
            /\ page_log' = Append(page_log, PageEvent("ok", next))
            /\ IF next = "absent"
                 THEN /\ pc' = "urls_close"
                      /\ loop_exit' = "no_next_page"
                      /\ current_page' = current_page
                 ELSE /\ pc' = "urls_page"
                      /\ loop_exit' = loop_exit
                      /\ current_page' = current_page + 1
    /\ UNCHANGED <<sessionVars, categories, cat_idx, results,
                   errors_at_landing>>
    /\ UNCHANGED <<entry, detailVars, routeVars>>
    /\ UNCHANGED <<browserVars, auxVars>>

\* after the while loop: results[category] = list(set(all_links))
UrlsCloseCategory ==
    /\ pc = "urls_close"
    /\ \E deduped \in list_of_set(all_links) :
         results' = DictSet(results, categories[cat_idx], deduped)
    /\ cat_idx' = cat_idx + 1
    /\ pc' = "urls_for"
    /\ UNCHANGED <<sessionVars, categories, all_links, current_page,
                   consecutive_failures, hrefs_seen, page_log, loop_exit,
                   errors_at_landing, visits, shown, shown_twice>>
    /\ UNCHANGED <<entry, detailVars, routeVars>>
    /\ UNCHANGED <<browserVars, auxVars>>

\* the for loop is exhausted: return results. The returned dict stays
\* visible to the caller, the locals of the page loop go with the frame.
UrlsReturn ==
    /\ pc = "urls_for"
    /\ cat_idx > Len(categories)
    /\ pc' = "urls_returned"
    /\ all_links' = <<>>
    /\ current_page' = 0
    /\ consecutive_failures' = 0
    /\ hrefs_seen' = {}
    /\ page_log' = <<>>
    /\ loop_exit' = "none"
    /\ errors_at_landing' = 0
    /\ UNCHANGED <<categories, cat_idx, results, visits, shown, shown_twice>>
    /\ UNCHANGED <<sessionVars, entry, detailVars, routeVars>>
    /\ UNCHANGED <<browserVars, auxVars>>

(***************************************************************************)
(* get_scraping_summary                                                    *)
(***************************************************************************)
\* _group_errors_by_type: a dict kind -> count, keys in order of first entry
group_errors_by_type(errs) ==
    LET F[k \in 0..Len(errs)] ==
            IF k = 0 THEN <<>>
            ELSE LET t == errs[k].error_type
                     n == IF DictHas(F[k - 1], t) THEN DictGet(F[k - 1], t) ELSE 0
                 IN DictSet(F[k - 1], t, n + 1)
    IN F[Len(errs)]

recent_limit_six == 5 + 1

\* the 5 of self.scraping_errors[-5:]
recent_limit == 5

\* seq[-n:] for n > 0
last_n(seq, n) ==
    IF Len(seq) <= n THEN seq ELSE SubSeq(seq, Len(seq) - n + 1, Len(seq))

\* self.scraping_errors[-5:] if self.scraping_errors else []
recent_errors(errs) == IF errs = <<>> THEN <<>> ELSE last_n(errs, recent_limit)

success_rate_unguarded(stats) ==
    [num |-> stats.properties_extracted * 100, den |-> stats.urls_scraped]

\* properties_extracted / max(urls_scraped, 1) * 100, as the fraction num/den
success_rate(stats) ==
    [num |-> stats.properties_extracted * 100,
     den |-> IF stats.urls_scraped > 1 THEN stats.urls_scraped ELSE 1]

\* str(end - start) when both times are set, None otherwise
total_time(stats) ==
    IF stats.start_time # None /\ stats.end_time # None THEN "elapsed" ELSE None

get_scraping_summary(errs, stats) ==
    [statistics |-> stats,
     total_time |-> total_time(stats),
     error_count |-> Len(errs),
     success_rate |-> success_rate(stats),
     errors_by_type |-> group_errors_by_type(errs),
     recent_errors |-> recent_errors(errs)]

(***************************************************************************)
(* BaseScraper: the browser session as a scoped resource                   *)
(***************************************************************************)
\* setup_driver: the driver is created, or creating it raises
SetupOutcomes == {"started", "setup_failed"}

cleanup_without_quit(d) == d

exit_suppresses(exc) == "none"

\* cleanup: "if self.driver: self.driver.quit()", an error of quit() is logged
cleanup(d) == IF d # "none" THEN "quit" ELSE d

\* __exit__ returns None: the exception of the body, if any, goes on to the
\* caller
exit_propagates(exc) == exc

(***************************************************************************)
(* Specification of a direct scrape_property_details call on a fresh       *)
(* scraper (as test_property_details makes it)                             *)
(***************************************************************************)
InitCommon ==
    /\ scraping_errors = <<>>
    /\ scraping_stats = InitStats
    /\ categories = <<>>
    /\ cat_idx = 0
    /\ results = <<>>
    /\ all_links = <<>>
    /\ current_page = 0
    /\ consecutive_failures = 0
    /\ hrefs_seen = {}
    /\ page_log = <<>>
    /\ loop_exit = "none"
    /\ errors_at_landing = 0
    /\ visits = 0
    /\ shown = {}
    /\ shown_twice = {}
    /\ urls = <<>>
    /\ category = None
    /\ url_idx = 0
    /\ retry = 0
    /\ property_data = <<>>
    /\ detail_results = <<>>
    /\ errors_at_call = 0
    /\ req_categories = <<>>
    /\ max_properties = 0
    /\ unlimited = FALSE
    /\ all_urls_with_category = <<>>
    /\ route_i = 0
    /\ all_properties = <<>>
    /\ response = [status_code |-> 0, detail |-> <<>>, body |-> <<>>]
    /\ raised = "none"
    /\ calls = 0
    /\ summary = <<>>
    /\ fn_arg = <<>>
    /\ fn_ret = <<>>
    /\ heap = [lists |-> <<>>, dicts |-> <<>>]
    /\ scrapers = <<>>
    /\ actor = 0

InitDetail ==
    /\ InitCommon
    /\ driver = "live"
    /\ entry = "details"
    /\ pc = "ready"

DirectCallDetails ==
    /\ pc = "ready"
    /\ entry = "details"
    /\ \E us \in SeqsUpTo(Urls, MaxUrls), cat \in CategoryNames :
          CallDetails(us, cat)
    /\ UNCHANGED <<entry, urlVars, routeVars>>
    /\ UNCHANGED <<browserVars, auxVars>>

NextDetail ==
    \/ DirectCallDetails
    \/ DetailNextUrl
    \/ DetailAttempt
    \/ DetailFinishUrl
    \/ DetailReturn

SpecDetail == InitDetail /\ [][NextDetail]_vars

(***************************************************************************)
(* Specification of a direct scrape_all_urls call on a fresh scraper (as   *)
(* test_multi_category_scraper and test_single_category make it)           *)
(***************************************************************************)
InitUrls ==
    /\ InitCommon
    /\ driver = "live"
    /\ entry = "urls"
    /\ pc = "ready"

DirectCallUrls ==
    /\ pc = "ready"
    /\ entry = "urls"
    /\ \E cats \in SeqsUpTo(CategoryNames, MaxCats) : CallUrls(cats)
    /\ UNCHANGED <<entry, sessionVars, detailVars, routeVars>>
    /\ UNCHANGED <<browserVars, auxVars>>

NextUrls ==
    \/ DirectCallUrls
    \/ UrlsInvalidCategory
    \/ UrlsLandingFailed
    \/ UrlsLandingLoaded
    \/ UrlsPageFailed
    \/ UrlsPageEmpty
    \/ UrlsPageParsed
    \/ UrlsCloseCategory
    \/ UrlsReturn

SpecUrls == InitUrls /\ [][NextUrls]_vars

(***************************************************************************)
(* POST /bali-exception/scrape: scrape_bali_exception_properties           *)
(***************************************************************************)
valid_categories == <<"for-sale", "for-rent">>

invalid_categories_unchecked(cats) == <<>>

\* [cat for cat in categories if cat not in valid_categories]
invalid_categories(cats) ==
    SelectSeq(cats, LAMBDA c : c \notin Range(valid_categories))

NoResponse == [status_code |-> 0, detail |-> <<>>, body |-> <<>>]

\* what the client receives when the handler raises HTTPException
HTTPException(status_code, detail) ==
    [status_code |-> status_code, detail |-> detail, body |-> <<>>]

\* raise HTTPException(status_code=400, detail=f"Invalid categories: ...")
validation_error(cats) ==
    HTTPException(400, <<"Invalid categories", invalid_categories(cats),
                         "Valid options", valid_categories>>)

\* "except Exception as e: raise HTTPException(status_code=500, detail=str(e))"
\* encloses the whole handler body, the validation included
except_Exception(e) ==
    HTTPException(500, <<"str", e.status_code, e.detail>>)

Min(a, b) == IF a < b THEN a ELSE b
Max(a, b) == IF a > b THEN a ELSE b

\* seq[:n], for a negative n too
slice_to(seq, n) ==
    IF n >= 0 THEN SubSeq(seq, 1, Min(n, Len(seq)))
              ELSE SubSeq(seq, 1, Max(Len(seq) + n, 0))

properties_to_scrape(n, maxp, unl) == IF unl THEN n ELSE Min(n, maxp)

\* for category, urls in urls_dict.items(): for url in urls: append((url, category))
RECURSIVE flatten(_)
flatten(d) ==
    IF d = <<>> THEN <<>>
    ELSE [k \in 1..Len(d[1][2]) |-> <<d[1][2][k], d[1][1]>>] \o flatten(Tail(d))

\* all_urls_with_category[:properties_to_scrape]
to_scrape ==
    slice_to(all_urls_with_category,
             properties_to_scrape(Len(all_urls_with_category), max_properties,
                                  unlimited))

RouteRequests ==
    SeqsUpTo(CategoryNames, MaxCats) \X ((0 - NegProps)..MaxProps) \X BOOLEAN

\* a request with an invalid category: the 400 is raised inside the try block
RouteRejects ==
    /\ pc = "ready"
    /\ entry = "route"
    /\ \E rq \in RouteRequests :
         /\ invalid_categories(rq[1]) # <<>>
         /\ req_categories' = rq[1]
         /\ max_properties' = rq[2]
         /\ unlimited' = rq[3]
         /\ response' = except_Exception(validation_error(rq[1]))
    /\ pc' = "responded"
    /\ UNCHANGED <<entry, sessionVars, urlVars, detailVars,
                   all_urls_with_category, route_i, all_properties>>
    /\ UNCHANGED <<browserVars, auxVars>>

\* the exception setup_driver re-raises when the browser cannot be started
DriverError == [status_code |-> 0, detail |-> <<"driver not started">>]

\* a valid request: "with BaliExceptionScraper(...) as scraper" starts the
\* browser and scrape_all_urls is called
RouteAccepts ==
    /\ pc = "ready"
    /\ entry = "route"
    /\ \E rq \in RouteRequests :
         /\ invalid_categories(rq[1]) = <<>>
         /\ req_categories' = rq[1]
         /\ max_properties' = rq[2]
         /\ unlimited' = rq[3]
         /\ CallUrls(rq[1])
    /\ driver' = "live"
    /\ calls' = calls + 1
    /\ UNCHANGED <<entry, sessionVars, detailVars, all_urls_with_category,
                   route_i, all_properties, response>>
    /\ UNCHANGED <<raised, summary, auxVars>>

\* a valid request, but setup_driver raises in __enter__: the with body is
\* never entered and the except clause of the handler answers
RouteSetupFails ==
    /\ pc = "ready"
    /\ entry = "route"
    /\ \E rq \in RouteRequests :
         /\ invalid_categories(rq[1]) = <<>>
         /\ req_categories' = rq[1]
         /\ max_properties' = rq[2]
         /\ unlimited' = rq[3]
    /\ raised' = "setup_failed"
    /\ response' = except_Exception(DriverError)
    /\ pc' = "responded"
    /\ UNCHANGED <<entry, sessionVars, urlVars, detailVars,
                   all_urls_with_category, route_i, all_properties>>
    /\ UNCHANGED <<driver, calls, summary, auxVars>>

\* scrape_all_urls returned: flatten the dict
RouteFlatten ==
    /\ pc = "urls_returned"
    /\ entry = "route"
    /\ all_urls_with_category' = flatten(results)
    /\ route_i' = 1
    /\ all_properties' = <<>>
    /\ pc' = "route_loop"
    /\ UNCHANGED <<entry, sessionVars, urlVars, detailVars, req_categories,
                   max_properties, unlimited, response>>
    /\ UNCHANGED <<browserVars, auxVars>>

\* details_list = scraper.scrape_property_details([url], category)
RouteCallDetails ==
    /\ pc = "route_loop"
    /\ route_i <= Len(to_scrape)
    /\ CallDetails(<<to_scrape[route_i][1]>>, to_scrape[route_i][2])
    /\ calls' = calls + 1
    /\ UNCHANGED <<entry, urlVars, routeVars>>
    /\ UNCHANGED <<driver, raised, summary, auxVars>>

\* if details_list: all_properties.extend(details_list)
RouteDetailsReturned ==
    /\ pc = "details_returned"
    /\ entry = "route"
    /\ all_properties' = all_properties \o detail_results
    /\ route_i' = route_i + 1
    /\ pc' = "route_loop"
    /\ UNCHANGED <<entry, sessionVars, urlVars, detailVars, req_categories,
                   max_properties, unlimited, all_urls_with_category, response>>
    /\ UNCHANGED <<browserVars, auxVars>>

\* the loop is exhausted: the summary is taken, the with block is left
\* (cleanup) and the response is built
RouteResponds ==
    /\ pc = "route_loop"
    /\ route_i > Len(to_scrape)
    /\ summary' = <<get_scraping_summary(scraping_errors, scraping_stats)>>
    /\ driver' = cleanup(driver)
    /\ response' =
          [status_code |-> 200, detail |-> <<>>,
           body |-> <<Len(all_urls_with_category), Len(all_properties),
                      summary'[1].error_count>>]
    /\ pc' = "responded"
    /\ UNCHANGED <<entry, sessionVars, urlVars, detailVars, req_categories,
                   max_properties, unlimited, all_urls_with_category, route_i,
                   all_properties>>
    /\ UNCHANGED <<raised, calls, auxVars>>

InitRoute ==
    /\ InitCommon
    /\ driver = "none"
    /\ entry = "route"
    /\ pc = "ready"

\* UrlsInvalidCategory is left out: the route validated the categories
NextRoute ==
    \/ RouteRejects
    \/ RouteSetupFails
    \/ RouteAccepts
    \/ UrlsLandingFailed
    \/ UrlsLandingLoaded
    \/ UrlsPageFailed
    \/ UrlsPageEmpty
    \/ UrlsPageParsed
    \/ UrlsCloseCategory
    \/ UrlsReturn
    \/ RouteFlatten
    \/ RouteCallDetails
    \/ DetailNextUrl
    \/ DetailAttempt
    \/ DetailFinishUrl
    \/ DetailReturn
    \/ RouteDetailsReturned
    \/ RouteResponds

SpecRoute == InitRoute /\ [][NextRoute]_vars

(***************************************************************************)
(* Specification of one scraper session: a caller enters the with block,   *)
(* invokes operations on the scraper, and leaves the block (as the three   *)
(* functions of test_scraper.py do)                                        *)
(***************************************************************************)
InitSession ==
    /\ InitCommon
    /\ driver = "none"
    /\ entry = "session"
    /\ pc = "outside"

\* "with BaliExceptionScraper(...) as scraper": __enter__ calls setup_driver
SessionEnter ==
    /\ pc = "outside"
    /\ entry = "session"
    /\ \E outcome \in SetupOutcomes :
         IF outcome = "started"
           THEN /\ driver' = "live"
                /\ pc' = "ready"
                /\ UNCHANGED raised
           ELSE /\ raised' = "setup_failed"
                /\ pc' = "exited"
                /\ UNCHANGED driver
    /\ UNCHANGED <<entry, sessionVars, urlVars, detailVars, routeVars, calls,
                   summary, auxVars>>

\* the body calls scraper.scrape_all_urls(cats)
SessionCallUrls ==
    /\ pc = "ready"
    /\ entry = "session"
    /\ calls < MaxCalls
    /\ \E cats \in SeqsUpTo(CategoryNames, MaxSessionCats) : CallUrls(cats)
    /\ calls' = calls + 1
    /\ UNCHANGED <<entry, sessionVars, detailVars, routeVars, driver, raised,
                   summary, auxVars>>

\* the body calls scraper.scrape_property_details(us, cat)
SessionCallDetails ==
    /\ pc = "ready"
    /\ entry = "session"
    /\ calls < MaxCalls
    /\ \E us \in SeqsUpTo(Urls, MaxUrls), cat \in CategoryNames :
          CallDetails(us, cat)
    /\ calls' = calls + 1
    /\ UNCHANGED <<entry, urlVars, routeVars, driver, raised, summary,
                   auxVars>>

\* the operation returned to the body, which is done with the returned value
SessionOpReturned ==
    /\ pc \in {"urls_returned", "details_returned"}
    /\ entry = "session"
    /\ pc' = "ready"
    /\ categories' = <<>>
    /\ cat_idx' = 0
    /\ results' = <<>>
    /\ visits' = 0
    /\ shown' = {}
    /\ shown_twice' = {}
    /\ urls' = <<>>
    /\ category' = None
    /\ url_idx' = 0
    /\ detail_results' = <<>>
    /\ errors_at_call' = 0
    /\ UNCHANGED <<all_links, current_page, consecutive_failures, hrefs_seen,
                   page_log, loop_exit, errors_at_landing, retry,
                   property_data>>
    /\ UNCHANGED <<entry, sessionVars, routeVars, browserVars, auxVars>>

\* the body calls scraper.get_scraping_summary()
SessionSummary ==
    /\ pc = "ready"
    /\ entry = "session"
    /\ summary' = <<get_scraping_summary(scraping_errors, scraping_stats)>>
    /\ UNCHANGED <<pc, entry, sessionVars, urlVars, detailVars, routeVars,
                   driver, raised, calls, auxVars>>

\* a statement of the body raises: the exception is in flight
SessionBodyRaises ==
    /\ pc = "ready"
    /\ entry = "session"
    /\ raised' = "body_error"
    /\ pc' = "unwinding"
    /\ UNCHANGED <<entry, sessionVars, urlVars, detailVars, routeVars, driver,
                   calls, summary, auxVars>>

\* the with block is left, by reaching its end or by the exception of the
\* body: __exit__ calls cleanup and returns None
SessionExit ==
    /\ pc \in {"ready", "unwinding"}
    /\ entry = "session"
    /\ raised' = exit_propagates(raised)
    /\ driver' = cleanup(driver)
    /\ pc' = "exited"
    /\ UNCHANGED <<entry, sessionVars, urlVars, detailVars, routeVars, calls,
                   summary, auxVars>>

NextSession ==
    \/ SessionEnter
    \/ SessionCallUrls
    \/ SessionCallDetails
    \/ SessionOpReturned
    \/ SessionSummary
    \/ SessionBodyRaises
    \/ SessionExit
    \/ UrlsInvalidCategory
    \/ UrlsLandingFailed
    \/ UrlsLandingLoaded
    \/ UrlsPageFailed
    \/ UrlsPageEmpty
    \/ UrlsPageParsed
    \/ UrlsCloseCategory
    \/ UrlsReturn
    \/ DetailNextUrl
    \/ DetailAttempt
    \/ DetailFinishUrl
    \/ DetailReturn

SpecSession == InitSession /\ [][NextSession]_vars

(***************************************************************************)
(* Specification of the ledger and its summary: any sequence of _add_error *)
(* calls on one scraper, then get_scraping_summary                         *)
(***************************************************************************)
LedgerKinds == {"timeout", "page_load_failed", "extraction_failed"}

InitLedger ==
    /\ InitCommon
    /\ driver = "live"
    /\ entry = "ledger"
    /\ pc = "recording"

\* some operation of the scraper calls self._add_error(kind, url, category)
LedgerAddError ==
    /\ pc = "recording"
    /\ entry = "ledger"
    /\ Len(scraping_errors) < MaxLedger
    /\ \E kind \in LedgerKinds :
         scraping_errors' =
            add_error(scraping_errors, kind,
                      IF kind = "extraction_failed"
                        THEN <<get_base_url("for-sale"), "villa-a">>
                        ELSE full_url("for-sale"),
                      "for-sale")
    /\ scraping_stats' = add_error_stats(scraping_stats)
    /\ UNCHANGED <<pc, entry, urlVars, detailVars, routeVars, browserVars,
                   auxVars>>

\* the caller asks for the summary
LedgerSummary ==
    /\ pc = "recording"
    /\ entry = "ledger"
    /\ summary' = <<get_scraping_summary(scraping_errors, scraping_stats)>>
    /\ pc' = "summarised"
    /\ UNCHANGED <<entry, sessionVars, urlVars, detailVars, routeVars, driver,
                   raised, calls, auxVars>>

NextLedger ==
    \/ LedgerAddError
    \/ LedgerSummary

SpecLedger == InitLedger /\ [][NextLedger]_vars

(***************************************************************************)
(* Specification of two scrapers in one process: each request handler      *)
(* constructs its own BaliExceptionScraper, and their _add_error and        *)
(* _update_stats calls interleave in any order                             *)
(***************************************************************************)
\* the two requests
Sessions == {1, 2}

new_object_shared(objs) == 1

\* "[]" and "{...}" in __init__ create a new object on every construction
new_object(objs) == Len(objs) + 1

\* the object at addr after the assignment in __init__
allocated(objs, addr, v) == IF addr > Len(objs) THEN Append(objs, v) ELSE objs

scraping_errors_of(s) == heap.lists[scrapers[s].errors]
scraping_stats_of(s) == heap.dicts[scrapers[s].stats]

PeerKinds == {"timeout", "extraction_failed"}

InitPeers ==
    /\ InitCommon
    /\ driver = "none"
    /\ entry = "peers"
    /\ pc = "serving"

\* a request handler evaluates BaliExceptionScraper(...): __init__ runs
PeerConstruct ==
    /\ entry = "peers"
    /\ Len(scrapers) < Cardinality(Sessions)
    /\ LET a == new_object(heap.lists)
           b == new_object(heap.dicts)
       IN /\ heap' = [lists |-> allocated(heap.lists, a, <<>>),
                      dicts |-> allocated(heap.dicts, b, InitStats)]
          /\ scrapers' = Append(scrapers, [errors |-> a, stats |-> b])
    /\ actor' = Len(scrapers) + 1
    /\ UNCHANGED <<pc, entry, sessionVars, urlVars, detailVars, routeVars,
                   browserVars, fn_arg, fn_ret>>

\* scraper s calls self._add_error(kind, ...)
PeerAddError ==
    /\ entry = "peers"
    /\ \E s \in 1..Len(scrapers), kind \in PeerKinds :
         /\ Len(scraping_errors_of(s)) < MaxPeerLedger
         /\ heap' =
              [lists |-> [heap.lists EXCEPT ![scrapers[s].errors] =
                             add_error(@, kind, full_url("for-sale"),
                                       "for-sale")],
               dicts |-> [heap.dicts EXCEPT ![scrapers[s].stats] =
                             add_error_stats(@)]]
         /\ actor' = s
    /\ UNCHANGED <<pc, entry, sessionVars, urlVars, detailVars, routeVars,
                   browserVars, fn_arg, fn_ret, scrapers>>

\* scraper s calls self._update_stats(action), in an order
\* scrape_property_details can produce
PeerUpdateStats ==
    /\ entry = "peers"
    /\ \E s \in 1..Len(scrapers),
          action \in {"start", "url_scraped", "property_extracted", "end"} :
         /\ action = "url_scraped" =>
               scraping_stats_of(s).urls_scraped < MaxPeerCount
         /\ action = "property_extracted" =>
               scraping_stats_of(s).properties_extracted
                  < scraping_stats_of(s).urls_scraped
         /\ heap' = [heap EXCEPT !.dicts[scrapers[s].stats] =
                        update_stats(@, action)]
         /\ heap' # heap
         /\ actor' = s
    /\ UNCHANGED <<pc, entry, sessionVars, urlVars, detailVars, routeVars,
                   browserVars, fn_arg, fn_ret, scrapers>>

NextPeers ==
    \/ PeerConstruct
    \/ PeerAddError
    \/ PeerUpdateStats

SpecPeers == InitPeers /\ [][NextPeers]_vars

(***************************************************************************)
(* BaliExceptionForRentExtractor._extract_number                           *)
(* A text is a sequence of one-character strings; a number is a record     *)
(* [kind, int_part, frac]: kind "int" or "float", frac the decimal digits   *)
(* after the point without trailing zeros                                  *)
(***************************************************************************)
DigitChars == <<"0", "1", "2", "3", "4", "5", "6", "7", "8", "9">>
IsDigit(c) == \E k \in 1..10 : DigitChars[k] = c
DigitValue(c) == (CHOOSE k \in 1..10 : DigitChars[k] = c) - 1

\* int("0042") = 42
int_of(digits) ==
    LET F[k \in 0..Len(digits)] ==
            IF k = 0 THEN 0 ELSE 10 * F[k - 1] + DigitValue(digits[k])
    IN F[Len(digits)]

\* the decimals of float("x.500") are those of x.5
RECURSIVE strip_zeros(_)
strip_zeros(digits) ==
    IF digits # <<>> /\ digits[Len(digits)] = "0"
      THEN strip_zeros(SubSeq(digits, 1, Len(digits) - 1))
      ELSE digits

IntNumber(n) == [kind |-> "int", int_part |-> n, frac |-> <<>>]
FloatNumber(n, decimals) ==
    [kind |-> "float", int_part |-> n, frac |-> strip_zeros(decimals)]

\* str(value).replace(",", "")
without_commas(text) == SelectSeq(text, LAMBDA c : c # ",")

\* the end of the longest run of digits that starts at position i
digits_end(text, i) ==
    CHOOSE e \in i..Len(text) :
        /\ \A k \in i..e : IsDigit(text[k])
        /\ e = Len(text) \/ ~IsDigit(text[e + 1])

no_match == [from |-> 0, to |-> 0, point |-> 0]

number_match_integer_only(text) ==
    IF \A k \in 1..Len(text) : ~IsDigit(text[k]) THEN no_match
    ELSE LET i == CHOOSE k \in 1..Len(text) :
                      IsDigit(text[k]) /\ \A j \in 1..(k - 1) : ~IsDigit(text[j])
         IN [from |-> i, to |-> digits_end(text, i), point |-> 0]

\* re.search(r'\d+(\.\d+)?', text): the leftmost match, each part as long as
\* it can be; point is the position of the decimal point, 0 without one
number_match(text) ==
    IF \A k \in 1..Len(text) : ~IsDigit(text[k]) THEN no_match
    ELSE LET i == CHOOSE k \in 1..Len(text) :
                      IsDigit(text[k]) /\ \A j \in 1..(k - 1) : ~IsDigit(text[j])
             e == digits_end(text, i)
         IN IF e + 2 <= Len(text) /\ text[e + 1] = "." /\ IsDigit(text[e + 2])
              THEN [from |-> i, to |-> digits_end(text, e + 2), point |-> e + 1]
              ELSE [from |-> i, to |-> e, point |-> 0]

\* _extract_number(value)
extract_number(value) ==
    IF value = <<>> THEN IntNumber(0)
    ELSE LET text == without_commas(value)
             m == number_match(text)
         IN IF m.from = 0 THEN IntNumber(0)
            ELSE IF m.point # 0
              THEN FloatNumber(int_of(SubSeq(text, m.from, m.point - 1)),
                               SubSeq(text, m.point + 1, m.to))
              ELSE IntNumber(int_of(SubSeq(text, m.from, m.to)))

\* the characters the texts are drawn from, and the two texts of the
\* docstring and the specification
NumberAlphabet == {"4", "0", ",", ".", " ", "m"}
Text_42_m2 == <<"4", "2", " ", "m", "²">>
Text_1234_5_sqm == <<"1", ",", "2", "3", "4", ".", "5", " ", "s", "q", "m">>
NumberInputs ==
    SeqsUpTo(NumberAlphabet, MaxText) \cup {Text_42_m2, Text_1234_5_sqm}

InitNumber ==
    /\ InitCommon
    /\ driver = "none"
    /\ entry = "number"
    /\ pc = "fn_idle"

\* _fill_missing_fields hands a feature value to _extract_number
NumberCalled ==
    /\ pc = "fn_idle"
    /\ entry = "number"
    /\ \E value \in NumberInputs : fn_arg' = <<value>>
    /\ pc' = "fn_called"
    /\ UNCHANGED <<entry, sessionVars, urlVars, detailVars, routeVars,
                   browserVars, fn_ret, heap, scrapers, actor>>

\* _extract_number returns
NumberReturned ==
    /\ pc = "fn_called"
    /\ entry = "number"
    /\ fn_ret' = <<extract_number(fn_arg[1])>>
    /\ pc' = "fn_returned"
    /\ UNCHANGED <<entry, sessionVars, urlVars, detailVars, routeVars,
                   browserVars, fn_arg, heap, scrapers, actor>>

NextNumber ==
    \/ NumberCalled
    \/ NumberReturned

SpecNumber == InitNumber /\ [][NextNumber]_vars

(***************************************************************************)
(* BaliExceptionForRentExtractor._detect_pool_info                         *)
(* Texts are sequences of one-character strings, as for _extract_number    *)
(***************************************************************************)
UpperChars ==
    <<"A", "B", "C", "D", "E", "F", "G", "H", "I", "J", "K", "L", "M", "N",
      "O", "P", "Q", "R", "S", "T", "U", "V", "W", "X", "Y", "Z">>
LowerChars ==
    <<"a", "b", "c", "d", "e", "f", "g", "h", "i", "j", "k", "l", "m", "n",
      "o", "p", "q", "r", "s", "t", "u", "v", "w", "x", "y", "z">>
IsUpper(c) == \E k \in 1..26 : UpperChars[k] = c
IsLower(c) == \E k \in 1..26 : LowerChars[k] = c
lower_char(c) ==
    IF IsUpper(c) THEN LowerChars[CHOOSE k \in 1..26 : UpperChars[k] = c] ELSE c
upper_char(c) ==
    IF IsLower(c) THEN UpperChars[CHOOSE k \in 1..26 : LowerChars[k] = c] ELSE c

\* str.lower()
lower(text) == [k \in 1..Len(text) |-> lower_char(text[k])]

\* str.title(): a letter that follows a letter is lower-cased, any other
\* letter is upper-cased
title(text) ==
    [k \in 1..Len(text) |->
        IF k > 1 /\ (IsUpper(text[k - 1]) \/ IsLower(text[k - 1]))
          THEN lower_char(text[k])
          ELSE upper_char(text[k])]

\* ' '.join(parts)
RECURSIVE join(_)
join(parts) ==
    IF parts = <<>> THEN <<>>
    ELSE IF Len(parts) = 1 THEN parts[1]
    ELSE parts[1] \o <<" ">> \o join(Tail(parts))

pool_keywords_without_jacuzzi ==
    << <<"p", "o", "o", "l">>,
      <<"s", "w", "i", "m", "m", "i", "n", "g", " ", "p", "o", "o", "l">>,
      <<"p", "l", "u", "n", "g", "e", " ", "p", "o", "o", "l">>,
      <<"l", "a", "p", " ", "p", "o", "o", "l">>,
      <<"i", "n", "f", "i", "n", "i", "t", "y", " ", "p", "o", "o", "l">> >>

\* the Python test: part in text
Occurs(part, text) ==
    \E i \in 1..(Len(text) - Len(part) + 1) :
        SubSeq(text, i, i + Len(part) - 1) = part

pool_keywords ==
    << <<"p", "o", "o", "l">>,
      <<"s", "w", "i", "m", "m", "i", "n", "g", " ", "p", "o", "o", "l">>,
      <<"p", "l", "u", "n", "g", "e", " ", "p", "o", "o", "l">>,
      <<"l", "a", "p", " ", "p", "o", "o", "l">>,
      <<"i", "n", "f", "i", "n", "i", "t", "y", " ", "p", "o", "o", "l">>,
      <<"j", "a", "c", "u", "z", "z", "i">> >>

pool_types_plunge_first ==
    << <<"p", "l", "u", "n", "g", "e">>,
      <<"p", "r", "i", "v", "a", "t", "e">>,
      <<"s", "h", "a", "r", "e", "d">>,
      <<"c", "o", "m", "m", "u", "n", "a", "l">>,
      <<"i", "n", "f", "i", "n", "i", "t", "y">>,
      <<"l", "a", "p">>,
      <<"j", "a", "c", "u", "z", "z", "i">> >>

pool_types ==
    << <<"p", "r", "i", "v", "a", "t", "e">>,
      <<"s", "h", "a", "r", "e", "d">>,
      <<"c", "o", "m", "m", "u", "n", "a", "l">>,
      <<"i", "n", "f", "i", "n", "i", "t", "y">>,
      <<"p", "l", "u", "n", "g", "e">>,
      <<"l", "a", "p">>,
      <<"j", "a", "c", "u", "z", "z", "i">> >>

\* description is a string (appended); key_information, key_features and
\* amenities are lists of strings (extended)
text_sources(data) ==
    <<data.description>> \o data.key_information \o data.key_features
                         \o data.amenities

all_text(data) == lower(join(text_sources(data)))

\* any(kw in all_text for kw in pool_keywords)
has_pool(text) ==
    \E k \in 1..Len(pool_keywords) : Occurs(pool_keywords[k], text)

\* the loop over pool_types stops at the first one found
pool_type(text) ==
    IF \A k \in 1..Len(pool_types) : ~Occurs(pool_types[k], text)
      THEN <<>>
      ELSE pool_types[CHOOSE k \in 1..Len(pool_types) :
                          /\ Occurs(pool_types[k], text)
                          /\ \A j \in 1..(k - 1) : ~Occurs(pool_types[j], text)]

\* _detect_pool_info(data): the two keys it assigns
detect_pool_info(data) ==
    LET text == all_text(data)
        found == pool_type(text)
    IN [pool |-> has_pool(text),
        pool_type |-> IF found # <<>> THEN title(found) ELSE <<>>]

Text_Enjoy ==
    <<"E", "n", "j", "o", "y", " ", "t", "h", "e", " ", "p", "r", "i", "v",
      "a", "t", "e", " ", "p", "l", "u", "n", "g", "e", " ", "p", "o", "o",
      "l">>

DescriptionWords ==
    { <<"t", "h", "e">>,
      <<"p", "r", "i", "v", "a", "t", "e">>,
      <<"p", "l", "u", "n", "g", "e">>,
      <<"p", "o", "o", "l">>,
      <<"S", "h", "a", "r", "e", "d">>,
      <<"o", "v", "e", "r", "l", "a", "p">> }

InformationItems ==
    { <<"c", "o", "m", "m", "u", "n", "a", "l">>,
      <<"I", "N", "F", "I", "N", "I", "T", "Y">> }

FeatureItems ==
    { <<"l", "a", "p">>,
      <<"J", "a", "c", "u", "z", "z", "i">> }

AmenityItems ==
    { <<"S", "w", "i", "m", "m", "i", "n", "g", " ", "P", "o", "o", "l">>,
      <<"k", "i", "t", "c", "h", "e", "n">>,
      <<"s", "h", "a", "r", "e", "d">> }

\* description_text.strip() of the words found on the page
Descriptions ==
    {join(words) : words \in SeqsUpTo(DescriptionWords, MaxDescWords)}
        \cup {Text_Enjoy}

PoolInputs ==
    [description : Descriptions,
     key_information : SeqsUpTo(InformationItems, MaxItems),
     key_features : SeqsUpTo(FeatureItems, MaxItems),
     amenities : SeqsUpTo(AmenityItems, MaxItems)]

InitPool ==
    /\ InitCommon
    /\ driver = "none"
    /\ entry = "pool"
    /\ pc = "fn_idle"

\* extract hands the data gathered from the page to _detect_pool_info
PoolCalled ==
    /\ pc = "fn_idle"
    /\ entry = "pool"
    /\ \E data \in PoolInputs : fn_arg' = <<data>>
    /\ pc' = "fn_called"
    /\ UNCHANGED <<entry, sessionVars, urlVars, detailVars, routeVars,
                   browserVars, fn_ret, heap, scrapers, actor>>

\* _detect_pool_info returns
PoolReturned ==
    /\ pc = "fn_called"
    /\ entry = "pool"
    /\ fn_ret' = <<detect_pool_info(fn_arg[1])>>
    /\ pc' = "fn_returned"
    /\ UNCHANGED <<entry, sessionVars, urlVars, detailVars, routeVars,
                   browserVars, fn_arg, heap, scrapers, actor>>

NextPool ==
    \/ PoolCalled
    \/ PoolReturned

SpecPool == InitPool /\ [][NextPool]_vars


(***************************************************************************)
(* BaliExceptionForRentExtractor._estimate_lease_expiry_year               *)
(* A value of the record is a number (IntNumber, FloatNumber) or a string  *)
(***************************************************************************)
StrValue(text) == [kind |-> "str", text |-> text]

\* bool(value): a number other than zero, a string other than ''
truthy(value) ==
    IF value.kind = "str" THEN value.text # <<>>
    ELSE value.int_part # 0 \/ value.frac # <<>>

\* str.strip() as int() applies it to its argument
RECURSIVE strip(_)
strip(text) ==
    IF text # <<>> /\ Head(text) = " " THEN strip(Tail(text))
    ELSE IF text # <<>> /\ text[Len(text)] = " "
      THEN strip(SubSeq(text, 1, Len(text) - 1))
      ELSE text

\* int(value) raises ValueError for a string that is not an integer literal
int_raises(value) ==
    /\ value.kind = "str"
    /\ \/ strip(value.text) = <<>>
       \/ \E k \in 1..Len(strip(value.text)) : ~IsDigit(strip(value.text)[k])

\* int(value): a float is cut at its point
int_value(value) ==
    IF value.kind = "str" THEN int_of(strip(value.text)) ELSE value.int_part

\* the body of the try: the key's value afterwards and the exception raised
lease_try(data) ==
    IF truthy(data.lease_duration) /\ truthy(data.year_built)
      THEN IF int_raises(data.year_built) \/ int_raises(data.lease_duration)
             THEN [value |-> data.lease_expiry_year, exc |-> "ValueError"]
             ELSE [value |-> int_value(data.year_built)
                               + int_value(data.lease_duration),
                   exc |-> "none"]
      ELSE [value |-> data.lease_expiry_year, exc |-> "none"]

lease_except_absent(outcome) == outcome

\* except: data['lease_expiry_year'] = 0
lease_except(outcome) ==
    IF outcome.exc # "none" THEN [value |-> 0, exc |-> "none"] ELSE outcome

\* _estimate_lease_expiry_year(data): data['lease_expiry_year'] afterwards
\* and the exception that leaves the method
estimate_lease_expiry_year(data) == lease_except(lease_try(data))

\* the values year_built and lease_duration are drawn from: the default 0,
\* numbers as _extract_number returns them, and strings
LeaseValues ==
    { IntNumber(0), IntNumber(25), IntNumber(2015),
      FloatNumber(0, <<>>), FloatNumber(0, <<"5">>), FloatNumber(25, <<"5">>),
      StrValue(<<>>), StrValue(<<"2", "5">>), StrValue(<<" ", "2", "5">>),
      StrValue(<<"2", "5", " ", "y">>), StrValue(<<"n", "/", "a">>) }

\* lease_expiry_year is 0 in the record extract_property_details builds
LeaseInputs ==
    [lease_duration : LeaseValues, year_built : LeaseValues,
     lease_expiry_year : {0}]

InitLease ==
    /\ InitCommon
    /\ driver = "none"
    /\ entry = "lease"
    /\ pc = "fn_idle"

\* extract_property_details hands the record to _estimate_lease_expiry_year
LeaseCalled ==
    /\ pc = "fn_idle"
    /\ entry = "lease"
    /\ \E data \in LeaseInputs : fn_arg' = <<data>>
    /\ pc' = "fn_called"
    /\ UNCHANGED <<entry, sessionVars, urlVars, detailVars, routeVars,
                   browserVars, fn_ret, heap, scrapers, actor>>

\* _estimate_lease_expiry_year returns or raises
LeaseReturned ==
    /\ pc = "fn_called"
    /\ entry = "lease"
    /\ fn_ret' = <<estimate_lease_expiry_year(fn_arg[1])>>
    /\ pc' = "fn_returned"
    /\ UNCHANGED <<entry, sessionVars, urlVars, detailVars, routeVars,
                   browserVars, fn_arg, heap, scrapers, actor>>

NextLease ==
    \/ LeaseCalled
    \/ LeaseReturned

SpecLease == InitLease /\ [][NextLease]_vars

(***************************************************************************)
(* Specification of the page loop followed to its end: one scrape_all_urls *)
(* call on a site that offers the next-page control on finitely many       *)
(* pages, every browser call returning                                     *)
(***************************************************************************)
InitLoop ==
    /\ InitCommon
    /\ driver = "live"
    /\ entry = "loop"
    /\ pc = "ready"

LoopCallUrls ==
    /\ pc = "ready"
    /\ entry = "loop"
    /\ \E cats \in SeqsUpTo(CategoryNames, MaxLoopCats) : CallUrls(cats)
    /\ UNCHANGED <<entry, sessionVars, detailVars, routeVars>>
    /\ UNCHANGED <<browserVars, auxVars>>

NextLoop ==
    \/ LoopCallUrls
    \/ UrlsInvalidCategory
    \/ UrlsLandingFailed
    \/ UrlsLandingLoaded
    \/ UrlsPageFailed
    \/ UrlsPageEmpty
    \/ UrlsPageParsed
    \/ UrlsCloseCategory
    \/ UrlsReturn

\* every browser call returns: the step that follows it is taken
SpecLoop == InitLoop /\ [][NextLoop]_vars /\ WF_vars(NextLoop)

(***************************************************************************)
(* extract_property_details of both extractors: the free-text body         *)
(* A paragraph is its stripped text; a text of several lines is the        *)
(* sequence of its lines                                                   *)
(***************************************************************************)
\* texts of the elements the description selector finds, "" for an element
\* without text
ParagraphTexts ==
    {"", "Spacious villa", "Close to the beach", "WE LOVE the garden",
     "KEY INFORMATION", "Key Features Include"}

\* the paragraphs with text, in document order
paragraphs_with_text(paragraphs) == SelectSeq(paragraphs, LAMBDA p : p # "")

\* the keys of the record that hold free text, as extract_property_details
\* creates them: for-rent 'description': '', 'amenities': [],
\* 'key_information': [], 'key_features': []; for-sale 'description': []
body_defaults(cat) ==
    IF cat = "for-rent"
      THEN << <<"description", <<>> >>, <<"amenities", <<>> >>,
              <<"key_information", <<>> >>, <<"key_features", <<>> >> >>
      ELSE << <<"description", <<>> >> >>

\* GET DESCRIPTION: for-rent joins the paragraphs with text by newlines and
\* strips the result, for-sale appends each of them to the list; no other
\* key is assigned
extract_description(cat, paragraphs) ==
    DictSet(body_defaults(cat), "description", paragraphs_with_text(paragraphs))

InitBody ==
    /\ InitCommon
    /\ driver = "none"
    /\ entry = "body"
    /\ pc = "fn_idle"

\* extract_property_details reaches GET DESCRIPTION with the page parsed
BodyCalled ==
    /\ pc = "fn_idle"
    /\ entry = "body"
    /\ \E cat \in Extractors, paragraphs \in SeqsUpTo(ParagraphTexts, MaxParagraphs) :
         fn_arg' = <<[category |-> cat, paragraphs |-> paragraphs]>>
    /\ pc' = "fn_called"
    /\ UNCHANGED <<entry, sessionVars, urlVars, detailVars, routeVars,
                   browserVars, fn_ret, heap, scrapers, actor>>

\* GET DESCRIPTION is done
BodyReturned ==
    /\ pc = "fn_called"
    /\ entry = "body"
    /\ fn_ret' = <<extract_description(fn_arg[1].category, fn_arg[1].paragraphs)>>
    /\ pc' = "fn_returned"
    /\ UNCHANGED <<entry, sessionVars, urlVars, detailVars, routeVars,
                   browserVars, fn_arg, heap, scrapers, actor>>

NextBody ==
    \/ BodyCalled
    \/ BodyReturned

SpecBody == InitBody /\ [][NextBody]_vars

(***************************************************************************)
(* BaliExceptionForRentExtractor._fill_missing_fields                      *)
(* The record and the features are dicts; a value is a number or a string  *)
(***************************************************************************)
\* feature_map: label in features -> key of the record
feature_map ==
    << <<"Property ID", "property_ID">>,
       <<"Bedroom", "bedrooms">>,
       <<"Bathroom", "bathrooms">>,
       <<"Land Area", "land_size_sqm">>,
       <<"Property Size", "building_size_sqm">>,
       <<"Furnish", "furnish">>,
       <<"Leasehold", "lease_duration">>,
       <<"Year Built", "year_built">>,
       <<"Status", "status">>,
       <<"Type", "type">>,
       <<"Area", "location">>,
       <<"Label", "listing_status">>,
       <<"Pool Size", "pool_size">> >>

\* the keys whose value goes through _extract_number
numeric_fields ==
    {"bedrooms",
     "bathrooms",
     "land_size_sqm",
     "building_size_sqm",
     "lease_duration",
     "year_built",
     "pool_size"}

is_default_any(value) == TRUE

\* data[main_key] == '' or data[main_key] == 0
is_default(value) ==
    IF value.kind = "str" THEN value.text = <<>>
    ELSE value.int_part = 0 /\ value.frac = <<>>

\* value.split()[0] of a text that is not all whitespace
first_token(text) ==
    LET body == strip(text)
        stop == IF \E k \in 1..Len(body) : body[k] = " "
                  THEN (CHOOSE k \in 1..Len(body) :
                            body[k] = " " /\ \A j \in 1..(k - 1) : body[j] # " ") - 1
                  ELSE Len(body)
    IN SubSeq(body, 1, stop)

\* data['features'].get(f_key, '')
feature_value(features, f_key) ==
    IF DictHas(features, f_key) THEN DictGet(features, f_key) ELSE <<>>

\* the value assigned to data[main_key] for the text found in features
backfill_value(main_key, text) ==
    IF main_key \in numeric_fields
      THEN IF main_key = "lease_duration"
             THEN IF strip(text) # <<>> THEN extract_number(first_token(text))
                                        ELSE IntNumber(0)
             ELSE extract_number(text)
      ELSE StrValue(text)

\* the label feature_map maps to a key of the record
label_of(main_key) ==
    feature_map[CHOOSE k \in 1..Len(feature_map) :
                    feature_map[k][2] = main_key][1]

\* _fill_missing_fields(data): the loop over feature_map assigns each key
\* of the record at most once (no key is mapped twice) and only keys the
\* record has, so each entry of the record is settled on its own
fill_missing_fields(data, features) ==
    [i \in 1..Len(data) |->
        LET main_key == data[i][1]
        IN IF (\E k \in 1..Len(feature_map) : feature_map[k][2] = main_key)
                /\ is_default(data[i][2])
             THEN <<main_key,
                    backfill_value(main_key,
                                   feature_value(features, label_of(main_key)))>>
             ELSE data[i]]

\* the record as extract_property_details builds it (155-187), with the
\* keys that primary extraction or an earlier pass may have set
record_with(title_text, location, bedrooms, lease_duration) ==
    << <<"title", StrValue(title_text)>>,
       <<"property_ID", StrValue(<<>>)>>,
       <<"location", location>>,
       <<"type", StrValue(<<>>)>>,
       <<"status", StrValue(<<>>)>>,
       <<"bedrooms", bedrooms>>,
       <<"bathrooms", IntNumber(0)>>,
       <<"land_size_sqm", IntNumber(0)>>,
       <<"building_size_sqm", IntNumber(0)>>,
       <<"lease_duration", lease_duration>>,
       <<"year_built", IntNumber(0)>>,
       <<"listing_status", StrValue(<<>>)>>,
       <<"pool_size", IntNumber(0)>>,
       <<"furnish", StrValue(<<>>)>> >>

Text_Villa == <<"V", "i", "l", "l", "a">>
Text_Canggu == <<"C", "a", "n", "g", "g", "u">>
Text_Ubud == <<"U", "b", "u", "d">>

\* texts of the values of the feature list
BedroomTexts == {<<"3">>, <<"n", "/", "a">>}

LeaseholdTexts ==
    {<<"2", "5", " ", "y", "e", "a", "r", "s">>,
     <<"y", "e", "a", "r", "s", " ", "2", "5">>,
     <<" ">>,
     <<"2", "5">>}

\* the dict of a set of <<label, text>> pairs with distinct labels
RECURSIVE DictOf(_)
DictOf(pairs) ==
    IF pairs = {} THEN <<>>
    ELSE LET p == CHOOSE q \in pairs : TRUE
         IN DictSet(DictOf(pairs \ {p}), p[1], p[2])

FeatureDicts ==
    {DictOf(area \cup bedroom \cup leasehold) :
        area \in {{}, {<<"Area", Text_Ubud>>}},
        bedroom \in {{}} \cup {{<<"Bedroom", x>>} : x \in BedroomTexts},
        leasehold \in {{}} \cup {{<<"Leasehold", x>>} : x \in LeaseholdTexts}}

FillRecords ==
    {record_with(Text_Villa, location, bedrooms, lease_duration) :
        location \in {StrValue(<<>>), StrValue(Text_Canggu)},
        bedrooms \in {IntNumber(0), IntNumber(2)},
        lease_duration \in {IntNumber(0), IntNumber(10)}}

InitFill ==
    /\ InitCommon
    /\ driver = "none"
    /\ entry = "fill"
    /\ pc = "fn_idle"

\* extract_property_details hands the record to _fill_missing_fields
FillCalled ==
    /\ pc = "fn_idle"
    /\ entry = "fill"
    /\ \E data \in FillRecords, features \in FeatureDicts :
         fn_arg' = <<[data |-> data, features |-> features]>>
    /\ pc' = "fn_called"
    /\ UNCHANGED <<entry, sessionVars, urlVars, detailVars, routeVars,
                   browserVars, fn_ret, heap, scrapers, actor>>

\* _fill_missing_fields returns
FillReturned ==
    /\ pc = "fn_called"
    /\ entry = "fill"
    /\ fn_ret' = <<fill_missing_fields(fn_arg[1].data, fn_arg[1].features)>>
    /\ pc' = "fn_returned"
    /\ UNCHANGED <<entry, sessionVars, urlVars, detailVars, routeVars,
                   browserVars, fn_arg, heap, scrapers, actor>>

NextFill ==
    \/ FillCalled
    \/ FillReturned

SpecFill == InitFill /\ [][NextFill]_vars

(***************************************************************************)
(* BaliExceptionForRentExtractor.extract_property_details: the three       *)
(* post-processing calls at the end of the method                          *)
(***************************************************************************)
Text_2015 == <<"2", "0", "1", "5">>

\* the keys of the record the three steps read or assign besides those of
\* record_with
full_record(data, description) ==
    data \o << <<"description", StrValue(description)>>,
               <<"amenities", <<>> >>,
               <<"key_information", <<>> >>,
               <<"key_features", <<>> >>,
               <<"pool", FALSE>>,
               <<"pool_type", StrValue(<<>>)>>,
               <<"lease_expiry_year", 0>> >>

PostRecords ==
    {full_record(data, description) :
        data \in FillRecords, description \in {<<>>, Text_Enjoy}}

PostFeatureDicts ==
    FeatureDicts \cup {DictSet(f, "Year Built", Text_2015) : f \in FeatureDicts}

\* how the call of _fill_missing_fields can end: it has no try of its own,
\* and int() at line 316 raises ValueError for a run of digits longer than
\* the interpreter's limit for int/str conversion (4300 digits by default)
FillOutcomes == {"returns", "ValueError"}

\* data = self._detect_pool_info(data)
with_pool_info(data) ==
    LET info == detect_pool_info(
                    [description |-> DictGet(data, "description").text,
                     key_information |-> DictGet(data, "key_information"),
                     key_features |-> DictGet(data, "key_features"),
                     amenities |-> DictGet(data, "amenities")])
    IN DictSet(DictSet(data, "pool", info.pool),
               "pool_type", StrValue(info.pool_type))

\* data = self._estimate_lease_expiry_year(data)
with_lease_expiry(data) ==
    DictSet(data, "lease_expiry_year",
            estimate_lease_expiry_year(
                [lease_duration |-> DictGet(data, "lease_duration"),
                 year_built |-> DictGet(data, "year_built"),
                 lease_expiry_year |-> DictGet(data, "lease_expiry_year")]).value)

InitPost ==
    /\ InitCommon
    /\ driver = "none"
    /\ entry = "post"
    /\ pc = "fn_idle"

\* extract_property_details has parsed the page (line 298 is behind it);
\* fn_ret holds the record and the steps started so far
PostCalled ==
    /\ pc = "fn_idle"
    /\ entry = "post"
    /\ \E data \in PostRecords, features \in PostFeatureDicts,
          fill \in FillOutcomes :
         /\ fn_arg' = <<[data |-> data, features |-> features, fill |-> fill]>>
         /\ fn_ret' = <<[data |-> data, started |-> <<>>, exc |-> "none"]>>
    /\ pc' = "post_fill"
    /\ UNCHANGED <<entry, sessionVars, urlVars, detailVars, routeVars,
                   browserVars, heap, scrapers, actor>>

\* line 301: the exception of _fill_missing_fields meets no except clause
\* in extract_property_details and leaves the method
PostFill ==
    /\ pc = "post_fill"
    /\ entry = "post"
    /\ IF fn_arg[1].fill = "returns"
         THEN /\ fn_ret' = <<[data |-> fill_missing_fields(fn_ret[1].data,
                                                            fn_arg[1].features),
                              started |-> Append(fn_ret[1].started, "fill"),
                              exc |-> "none"]>>
              /\ pc' = "post_pool"
         ELSE /\ fn_ret' = <<[data |-> fn_ret[1].data,
                              started |-> Append(fn_ret[1].started, "fill"),
                              exc |-> fn_arg[1].fill]>>
              /\ pc' = "fn_raised"
    /\ UNCHANGED <<entry, sessionVars, urlVars, detailVars, routeVars,
                   browserVars, fn_arg, heap, scrapers, actor>>

\* line 304
PostPool ==
    /\ pc = "post_pool"
    /\ entry = "post"
    /\ fn_ret' = <<[data |-> with_pool_info(fn_ret[1].data),
                    started |-> Append(fn_ret[1].started, "pool"),
                    exc |-> "none"]>>
    /\ pc' = "post_lease"
    /\ UNCHANGED <<entry, sessionVars, urlVars, detailVars, routeVars,
                   browserVars, fn_arg, heap, scrapers, actor>>

\* lines 307-309: the last step, then return data
PostLease ==
    /\ pc = "post_lease"
    /\ entry = "post"
    /\ fn_ret' = <<[data |-> with_lease_expiry(fn_ret[1].data),
                    started |-> Append(fn_ret[1].started, "lease"),
                    exc |-> "none"]>>
    /\ pc' = "fn_returned"
    /\ UNCHANGED <<entry, sessionVars, urlVars, detailVars, routeVars,
                   browserVars, fn_arg, heap, scrapers, actor>>

NextPost ==
    \/ PostCalled
    \/ PostFill
    \/ PostPool
    \/ PostLease

SpecPost == InitPost /\ [][NextPost]_vars

(***************************************************************************)
(* extract_property_details of both extractors: the five field groups,     *)
(* each in a try of its own. The record keeps, per key, how many           *)
(* assignments it received (0: the default it was created with)            *)
(***************************************************************************)
field_groups == <<"title", "price", "location", "features", "description">>

\* the key the title's keyword sets: 'property_type' (for-sale), 'type'
type_key(cat) == IF cat = "for-sale" THEN "property_type" ELSE "type"

\* the keys the five groups assign
extracted_keys(cat) ==
    {"title", type_key(cat), "price_idr", "price_usd", "location",
     "features", "description"}

Repeat(key, n) == [k \in 1..n |-> key]

\* the assignments the body of a group's try makes, in order, when nothing
\* raises; which of them depends on what the page holds: no element (no
\* assignment), the price as attributes (for-sale: usd, then idr) or as
\* text (idr, then usd), one features entry per pair found, and for for-sale
\* one description entry per paragraph (for-rent assigns the joined text)
group_assignments(cat, group) ==
    CASE group = "title" -> {<<>>, <<"title", type_key(cat)>>}
      [] group = "price" ->
             {<<>>, <<"price_idr", "price_usd">>}
                 \cup (IF cat = "for-sale" THEN {<<"price_usd", "price_idr">>}
                                           ELSE {})
      [] group = "location" -> {<<>>, <<"location">>}
      [] group = "features" -> {Repeat("features", n) : n \in 0..MaxFeatures}
      [] group = "description" ->
             IF cat = "for-sale"
               THEN {Repeat("description", n) : n \in 0..MaxParagraphs}
               ELSE {<<>>, <<"description">>}

\* how many of the assignments can be done when the body raises: the
\* lookups of the title, the location and the for-rent description raise
\* before their assignments; a price conversion can raise after the first
\* key is assigned (int() after float() at 168-169, round(.. / USD_RATE)
\* after price_idr at 179-180 and 241-242); the features and for-sale
\* description loops can raise at any item
raise_points(cat, group, assignments) ==
    IF group \in {"title", "location"}
           \/ (group = "description" /\ cat = "for-rent")
           \/ assignments = <<>>
      THEN {0}
      ELSE 0..(Len(assignments) - 1)

\* what one run of a group's try can be: the assignments done and whether
\* the body raised
GroupRuns(cat, group) ==
    UNION {{[assignments |-> a, done |-> Len(a), raised |-> FALSE]}
               \cup {[assignments |-> a, done |-> d, raised |-> TRUE] :
                        d \in raise_points(cat, group, a)} :
           a \in group_assignments(cat, group)}

\* the record after the first n of the assignments
RECURSIVE assign_all(_, _, _)
assign_all(data, assignments, n) ==
    IF n = 0 THEN data
    ELSE LET before == assign_all(data, assignments, n - 1)
         IN [before EXCEPT ![assignments[n]] = @ + 1]

group_propagates(group) == FALSE

\* every group's try has an "except Exception" that logs and goes on
group_catches(group) == TRUE

InitExtract ==
    /\ InitCommon
    /\ driver = "live"
    /\ entry = "extract"
    /\ pc = "fn_idle"

\* scrape_property_details calls extractor.extract_property_details
ExtractCalled ==
    /\ pc = "fn_idle"
    /\ entry = "extract"
    /\ \E cat \in Extractors :
         /\ fn_arg' = <<[category |-> cat]>>
         /\ fn_ret' = <<[data |-> [key \in extracted_keys(cat) |-> 0],
                         runs |-> <<>>, error |-> FALSE]>>
    /\ pc' = "extract_load"
    /\ UNCHANGED <<entry, sessionVars, urlVars, detailVars, routeVars,
                   browserVars, heap, scrapers, actor>>

\* the page is retrieved and parsed, or data['error'] is set and the record
\* is returned as it was created
ExtractLoad ==
    /\ pc = "extract_load"
    /\ entry = "extract"
    /\ \E loaded \in BOOLEAN :
         IF loaded
           THEN pc' = "extract_group" /\ fn_ret' = fn_ret
           ELSE /\ pc' = "fn_returned"
                /\ fn_ret' = <<[fn_ret[1] EXCEPT !.error = TRUE]>>
    /\ UNCHANGED <<entry, sessionVars, urlVars, detailVars, routeVars,
                   browserVars, fn_arg, heap, scrapers, actor>>

\* one group: its try runs, an exception is logged by its except clause,
\* and the method goes on to the next group
ExtractGroup(group) ==
    /\ pc = "extract_group"
    /\ entry = "extract"
    /\ Len(fn_ret[1].runs) < Len(field_groups)
    /\ group = field_groups[Len(fn_ret[1].runs) + 1]
    /\ \E run \in GroupRuns(fn_arg[1].category, group) :
         /\ fn_ret' = <<[fn_ret[1] EXCEPT
                           !.data = assign_all(@, run.assignments, run.done),
                           !.runs = Append(@, run)]>>
         /\ pc' = IF run.raised /\ ~group_catches(group) THEN "fn_raised"
                  ELSE IF Len(fn_ret[1].runs) + 1 = Len(field_groups)
                    THEN "extract_done"
                    ELSE "extract_group"
    /\ UNCHANGED <<entry, sessionVars, urlVars, detailVars, routeVars,
                   browserVars, fn_arg, heap, scrapers, actor>>

ExtractTitle == ExtractGroup("title")
ExtractPrice == ExtractGroup("price")
ExtractLocation == ExtractGroup("location")
ExtractFeatures == ExtractGroup("features")
ExtractDescription == ExtractGroup("description")

NextExtract ==
    \/ ExtractCalled
    \/ ExtractLoad
    \/ ExtractTitle
    \/ ExtractPrice
    \/ ExtractLocation
    \/ ExtractFeatures
    \/ ExtractDescription

SpecExtract == InitExtract /\ [][NextExtract]_vars

(***************************************************************************)
(* navigate_to_next_page of both extractors                                *)
(***************************************************************************)
\* the candidate selectors in the order they are tried; n+1 stands for
\* current_page + 1. The for-rent extractor has the first one only
selectors(cat) ==
    IF cat = "for-sale"
      THEN <<".jet-filters-pagination__item[data-value=n+1]",
             "a.next.page-numbers",
             ".pagination .next",
             "a[aria-label='Page n+1']",
             ".page-numbers .next",
             ".pagination-next">>
      ELSE <<".jet-filters-pagination__item[data-value=n+1]">>

\* how WebDriverWait(...).until(element_to_be_clickable(...)) can end
WaitOutcomes == {"clickable", "TimeoutException", "WebDriverException"}

\* how the scroll and the click (execute_script) can end
ClickOutcomes == {"clicked", "WebDriverException"}

\* the position of the first selector whose wait does not time out, 0 when
\* every wait times out ("except TimeoutException: continue")
first_settled(waits) ==
    IF \A k \in 1..Len(waits) : waits[k] = "TimeoutException" THEN 0
    ELSE CHOOSE k \in 1..Len(waits) :
             /\ waits[k] # "TimeoutException"
             /\ \A j \in 1..(k - 1) : waits[j] = "TimeoutException"

\* the body of the try: the value returned or the exception raised, and
\* the selector whose element was clicked (0: none)
navigate_try(cat, waits, click) ==
    LET k == first_settled(waits)
    IN IF k = 0
         THEN IF cat = "for-sale"
                THEN [value |-> FALSE, exc |-> "none", clicked |-> 0]
                ELSE [value |-> FALSE, exc |-> "TimeoutException", clicked |-> 0]
       ELSE IF waits[k] # "clickable"
         THEN [value |-> FALSE, exc |-> waits[k], clicked |-> 0]
       ELSE IF click # "clicked"
         THEN [value |-> FALSE, exc |-> click, clicked |-> 0]
       ELSE [value |-> TRUE, exc |-> "none", clicked |-> k]

navigate_except_absent(outcome) == outcome

\* "except TimeoutException: return False" (for-rent) and
\* "except Exception: return False" (both)
navigate_except(outcome) ==
    IF outcome.exc # "none"
      THEN [value |-> FALSE, exc |-> "none", clicked |-> outcome.clicked]
      ELSE outcome

\* navigate_to_next_page(driver, current_page)
navigate_to_next_page(cat, waits, click) ==
    navigate_except(navigate_try(cat, waits, click))

NavigateInputs ==
    UNION {[category : {cat},
            waits : [1..Len(selectors(cat)) -> WaitOutcomes],
            click : ClickOutcomes] : cat \in Extractors}

InitNavigate ==
    /\ InitCommon
    /\ driver = "live"
    /\ entry = "navigate"
    /\ pc = "fn_idle"

\* scrape_all_urls calls extractor.navigate_to_next_page on a parsed page
NavigateCalled ==
    /\ pc = "fn_idle"
    /\ entry = "navigate"
    /\ \E input \in NavigateInputs : fn_arg' = <<input>>
    /\ pc' = "fn_called"
    /\ UNCHANGED <<entry, sessionVars, urlVars, detailVars, routeVars,
                   browserVars, fn_ret, heap, scrapers, actor>>

\* navigate_to_next_page returns
NavigateReturned ==
    /\ pc = "fn_called"
    /\ entry = "navigate"
    /\ fn_ret' = <<navigate_to_next_page(fn_arg[1].category, fn_arg[1].waits,
                                         fn_arg[1].click)>>
    /\ pc' = "fn_returned"
    /\ UNCHANGED <<entry, sessionVars, urlVars, detailVars, routeVars,
                   browserVars, fn_arg, heap, scrapers, actor>>

NextNavigate ==
    \/ NavigateCalled
    \/ NavigateReturned

SpecNavigate == InitNavigate /\ [][NextNavigate]_vars

(***************************************************************************)
(* The scroll loops of the for-rent category                               *)
(***************************************************************************)
\* the values document.body.scrollHeight can be measured at
Heights == 0..MaxHeight

\* the state of a scroll loop: the locals of the method, the number of
\* window.scrollTo(0, document.body.scrollHeight) calls made (scrolled) and
\* the heights measured so far, in order
scroll_locals(last_height, scroll_count, scrolled, heights) ==
    [last_height |-> last_height, scroll_count |-> scroll_count,
     scrolled |-> scrolled, heights |-> heights]

InitScroll ==
    /\ InitCommon
    /\ driver = "live"
    /\ entry = "scroll"
    /\ pc = "fn_idle"

\* _scroll_to_bottom(driver, max_scrolls): last_height is measured and
\* scroll_count starts at 0
ScrollToBottomCalled ==
    /\ pc = "fn_idle"
    /\ entry = "scroll"
    /\ \E max_scrolls \in 1..MaxScrolls, height \in Heights :
          /\ fn_arg' = <<[fn |-> "_scroll_to_bottom", max_scrolls |-> max_scrolls]>>
          /\ fn_ret' = <<scroll_locals(height, 0, 0, <<height>>)>>
    /\ pc' = "scroll_while"
    /\ UNCHANGED <<entry, sessionVars, urlVars, detailVars, routeVars,
                   browserVars, heap, scrapers, actor>>

\* one pass of "while scroll_count < max_scrolls": scroll, measure
\* new_height, break when new_height == last_height
ScrollToBottomPass ==
    /\ pc = "scroll_while"
    /\ entry = "scroll"
    /\ fn_ret[1].scroll_count < fn_arg[1].max_scrolls
    /\ \E new_height \in Heights :
          IF new_height = fn_ret[1].last_height
            THEN /\ fn_ret' = <<scroll_locals(fn_ret[1].last_height,
                                              fn_ret[1].scroll_count,
                                              fn_ret[1].scrolled + 1,
                                              Append(fn_ret[1].heights, new_height))>>
                 /\ pc' = "fn_returned"
            ELSE /\ fn_ret' = <<scroll_locals(new_height,
                                              fn_ret[1].scroll_count + 1,
                                              fn_ret[1].scrolled + 1,
                                              Append(fn_ret[1].heights, new_height))>>
                 /\ pc' = "scroll_while"
    /\ UNCHANGED <<entry, sessionVars, urlVars, detailVars, routeVars,
                   browserVars, fn_arg, heap, scrapers, actor>>

\* the while condition is false: the method returns
ScrollToBottomExhausted ==
    /\ pc = "scroll_while"
    /\ entry = "scroll"
    /\ ~(fn_ret[1].scroll_count < fn_arg[1].max_scrolls)
    /\ pc' = "fn_returned"
    /\ UNCHANGED <<entry, sessionVars, urlVars, detailVars, routeVars,
                   browserVars, fn_arg, fn_ret, heap, scrapers, actor>>

\* _scroll_to_trigger_loading(scroll_count), called with 3 after the
\* landing page loaded and with 2 on every later page
ScrollToTriggerCalled ==
    /\ pc = "fn_idle"
    /\ entry = "scroll"
    /\ \E scroll_count \in {2, 3} :
          fn_arg' = <<[fn |-> "_scroll_to_trigger_loading",
                       max_scrolls |-> scroll_count]>>
    /\ fn_ret' = <<scroll_locals(0, 0, 0, <<>>)>>
    /\ pc' = "trigger_for"
    /\ UNCHANGED <<entry, sessionVars, urlVars, detailVars, routeVars,
                   browserVars, heap, scrapers, actor>>

\* one pass of "for i in range(scroll_count)": scroll, nothing is measured
ScrollToTriggerPass ==
    /\ pc = "trigger_for"
    /\ entry = "scroll"
    /\ fn_ret[1].scroll_count < fn_arg[1].max_scrolls
    /\ fn_ret' = <<scroll_locals(0, fn_ret[1].scroll_count + 1,
                                 fn_ret[1].scrolled + 1, <<>>)>>
    /\ UNCHANGED <<pc, entry, sessionVars, urlVars, detailVars, routeVars,
                   browserVars, fn_arg, heap, scrapers, actor>>

\* the range is used up: scroll back to the top and return
ScrollToTriggerReturned ==
    /\ pc = "trigger_for"
    /\ entry = "scroll"
    /\ fn_ret[1].scroll_count = fn_arg[1].max_scrolls
    /\ pc' = "fn_returned"
    /\ UNCHANGED <<entry, sessionVars, urlVars, detailVars, routeVars,
                   browserVars, fn_arg, fn_ret, heap, scrapers, actor>>

NextScroll ==
    \/ ScrollToBottomCalled
    \/ ScrollToBottomPass
    \/ ScrollToBottomExhausted
    \/ ScrollToTriggerCalled
    \/ ScrollToTriggerPass
    \/ ScrollToTriggerReturned

SpecScroll == InitScroll /\ [][NextScroll]_vars

(***************************************************************************)
(* scrape_all_properties                                                   *)
(***************************************************************************)
\* the methods a BaliExceptionScraper has: those of the class and those it
\* inherits from BaseScraper
scraper_methods ==
    {"__init__", "__enter__", "__exit__", "setup_driver", "cleanup",
     "_scroll_to_trigger_loading", "_add_error", "_update_stats",
     "get_scraping_summary", "_group_errors_by_type", "scrape_all_urls",
     "scrape_property_details", "scrape_all_properties",
     "print_scraping_summary", "export_errors_to_file"}

\* the run of the method for one category: the category argument of the
\* caller's call (None: every category) and the category of the running
\* single-category call
all_properties_frame(cat_argument, cat, max_pages) ==
    [category |-> cat_argument, cat |-> cat, max_pages |-> max_pages]

\* urls[:max_pages * 20] when max_pages is set and exceeded (max_pages = 0
\* stands for None)
limit_urls(found, max_pages) ==
    IF max_pages # 0 /\ Len(found) > max_pages * 20
      THEN SubSeq(found, 1, max_pages * 20)
      ELSE found

InitAll ==
    /\ InitCommon
    /\ driver = "live"
    /\ entry = "all"
    /\ pc = "ready"

\* scrape_all_properties(category, max_pages) with an unknown category:
\* raise ValueError
ScrapeAllPropertiesRejects ==
    /\ pc = "ready"
    /\ entry = "all"
    /\ \E cat \in CategoryNames \ Extractors, max_pages \in {0, 1} :
          fn_arg' = <<all_properties_frame(cat, cat, max_pages)>>
    /\ raised' = "ValueError"
    /\ pc' = "all_raised"
    /\ UNCHANGED <<entry, sessionVars, urlVars, detailVars, routeVars, driver,
                   calls, summary, fn_ret, heap, scrapers, actor>>

\* scrape_all_properties with a category that has an extractor, or with no
\* category, where it calls itself for the first key of self.extractors:
\* urls_dict = self.scrape_all_urls([category])
ScrapeAllPropertiesCalled ==
    /\ pc = "ready"
    /\ entry = "all"
    /\ \E cat_argument \in Extractors \cup {None}, max_pages \in {0, 1} :
         LET cat == IF cat_argument = None THEN "for-sale" ELSE cat_argument
         IN /\ fn_arg' = <<all_properties_frame(cat_argument, cat, max_pages)>>
            /\ CallUrls(<<cat>>)
    /\ UNCHANGED <<entry, sessionVars, detailVars, routeVars, browserVars,
                   fn_ret, heap, scrapers, actor>>

\* after discovery: urls = urls_dict.get(category, []), limited by
\* max_pages, then "return self.scrape_property_details_bulk(urls, category)":
\* looking up an attribute the scraper does not have raises AttributeError,
\* which no handler of the method or of its recursive caller catches
ScrapeAllPropertiesBulk ==
    /\ pc = "urls_returned"
    /\ entry = "all"
    /\ LET cat == fn_arg[1].cat
           found == IF DictHas(results, cat) THEN DictGet(results, cat)
                                             ELSE <<>>
       IN urls' = limit_urls(found, fn_arg[1].max_pages)
    /\ category' = fn_arg[1].cat
    /\ IF "scrape_property_details_bulk" \in scraper_methods
         THEN /\ pc' = "all_bulk"
              /\ UNCHANGED raised
         ELSE /\ pc' = "all_raised"
              /\ raised' = "AttributeError"
    /\ UNCHANGED <<entry, sessionVars, urlVars, url_idx, retry, property_data,
                   detail_results, errors_at_call, routeVars, driver, calls,
                   summary, auxVars>>

NextAll ==
    \/ ScrapeAllPropertiesRejects
    \/ ScrapeAllPropertiesCalled
    \/ ScrapeAllPropertiesBulk
    \/ UrlsLandingFailed
    \/ UrlsLandingLoaded
    \/ UrlsPageFailed
    \/ UrlsPageEmpty
    \/ UrlsPageParsed
    \/ UrlsCloseCategory
    \/ UrlsReturn

SpecAll == InitAll /\ [][NextAll]_vars

(***************************************************************************)
(* The scrape endpoint's export to Google Sheets                           *)
(***************************************************************************)
\* GoogleSheetsService._setup_client: self.gc after the constructor. The
\* credentials are configured as JSON, as a file, or not at all; reading
\* them and gspread.authorize can raise, which the method logs and swallows
setup_client(credentials, authorize) ==
    IF credentials = "none" THEN None
    ELSE IF authorize = "raises" THEN None
    ELSE "client"

\* GoogleSheetsService.save_properties: the message it returns or the
\* exception it raises, and the rows the sheet received
save_properties(gc, sheet_id, write, n) ==
    IF gc = None \/ sheet_id = ""
      THEN [returned |-> "Google Sheets not configured", raises |-> FALSE,
            written |-> 0]
    ELSE IF write = "raises"
      THEN [returned |-> None, raises |-> TRUE, written |-> 0]
    ELSE [returned |-> "Successfully saved", raises |-> FALSE, written |-> n]

\* the route: sheets_result after "if save_to_sheets and sheets_service and
\* all_properties", None when the condition is false
sheets_result(save_to_sheets, n, saved) ==
    IF ~save_to_sheets \/ n = 0
      THEN [status |-> None, message |-> None, properties_saved |-> 0]
    ELSE IF saved.raises
      THEN [status |-> "error", message |-> "Failed to save to Google Sheets",
            properties_saved |-> 0]
    ELSE [status |-> "success", message |-> saved.returned,
          properties_saved |-> n]

SheetsInputs ==
    [save_to_sheets : BOOLEAN,
     credentials : {"json", "file", "none"},
     authorize : {"authorized", "raises"},
     sheet_id : {"", "sheet"},
     write : {"written", "raises"},
     properties : 0..MaxSaved]

InitSheets ==
    /\ InitCommon
    /\ driver = "none"
    /\ entry = "sheets"
    /\ pc = "fn_idle"

\* a request reaches the export step with its records
SheetsCalled ==
    /\ pc = "fn_idle"
    /\ entry = "sheets"
    /\ \E input \in SheetsInputs : fn_arg' = <<input>>
    /\ pc' = "fn_called"
    /\ UNCHANGED <<entry, sessionVars, urlVars, detailVars, routeVars,
                   browserVars, fn_ret, heap, scrapers, actor>>

\* the service is constructed, save_properties is called when the condition
\* of the route holds, and sheets_result is built
SheetsReturned ==
    /\ pc = "fn_called"
    /\ entry = "sheets"
    /\ LET input == fn_arg[1]
           gc == setup_client(input.credentials, input.authorize)
           saved == save_properties(gc, input.sheet_id, input.write,
                                    input.properties)
           called == input.save_to_sheets /\ input.properties > 0
       IN fn_ret' = <<[sheets_result |->
                          sheets_result(input.save_to_sheets,
                                        input.properties, saved),
                       written |-> IF called THEN saved.written ELSE 0]>>
    /\ pc' = "fn_returned"
    /\ UNCHANGED <<entry, sessionVars, urlVars, detailVars, routeVars,
                   browserVars, fn_arg, heap, scrapers, actor>>

NextSheets ==
    \/ SheetsCalled
    \/ SheetsReturned

SpecSheets == InitSheets /\ [][NextSheets]_vars

(***************************************************************************)
(* Claims about scrape_property_details (checked under SpecDetail)         *)
(***************************************************************************)
Returned == pc = "details_returned"

\* the ledger entries appended since the call began
AppendedErrors ==
    SubSeq(scraping_errors, errors_at_call + 1, Len(scraping_errors))

IsExtractionFailed(e) == e.error_type = "extraction_failed"

Accounting ==
    Len(detail_results) + Count(AppendedErrors, IsExtractionFailed) = Len(urls)

\* C1 (as stated): for every call scrape_property_details(urls, category),
\* the records returned plus the 'extraction_failed' entries appended during
\* the call number len(urls).
C1_Original == Returned => Accounting

\* C1 (amended): the same accounting, for every call whose category has an
\* extractor ('for-sale' or 'for-rent').
C1_Accounting == (Returned /\ category \in Extractors) => Accounting

C1_Witness ==
    /\ Returned
    /\ category \in Extractors
    /\ Len(urls) = 2
    /\ Len(detail_results) = 1
    /\ Count(AppendedErrors, IsExtractionFailed) = 1

RecordsFor(u) == Count(detail_results, LAMBDA r : r.url = u)
ErrorsFor(u) == Count(AppendedErrors, LAMBDA e : e.url = u)
Occurrences(u) == Count(urls, LAMBDA x : x = u)
AllTitled == \A k \in 1..Len(detail_results) : Truthy(detail_results[k].title)

\* C2 (as stated): every returned record has a non-empty title, every input
\* URL without a record has an error entry carrying it, and no input URL has
\* both a record and an error entry.
C2_Original ==
    Returned =>
        /\ AllTitled
        /\ \A u \in Range(urls) :
              /\ RecordsFor(u) = 0 => ErrorsFor(u) >= 1
              /\ ~(RecordsFor(u) >= 1 /\ ErrorsFor(u) >= 1)

\* C2 (amended): for a category that has an extractor, every returned record
\* has a non-empty title and every occurrence of a URL in the input is
\* accounted for by exactly one record or one error entry carrying that URL;
\* a URL that occurs once in the input never has both.
C2_UsableOrLedger ==
    (Returned /\ category \in Extractors) =>
        /\ AllTitled
        /\ \A u \in Range(urls) :
              /\ RecordsFor(u) + ErrorsFor(u) = Occurrences(u)
              /\ Occurrences(u) = 1 =>
                    ~(RecordsFor(u) >= 1 /\ ErrorsFor(u) >= 1)

C2_Witness ==
    /\ Returned
    /\ category \in Extractors
    /\ Len(urls) = 2
    /\ urls[1] # urls[2]
    /\ RecordsFor(urls[1]) = 0
    /\ ErrorsFor(urls[1]) = 1
    /\ RecordsFor(urls[2]) = 1
    /\ ErrorsFor(urls[2]) = 0

\* the step that closes the retry loop of one URL
FinishesUrl == pc = "detail_finish" /\ pc' = "detail_loop"

\* retry counts the attempts that gave no usable title; an attempt that gave
\* one ends the loop at once
AttemptsMade == retry + (IF has_title(property_data) THEN 1 ELSE 0)

\* C3: at most 3 attempts per URL; no attempt is made once a record with a
\* non-empty title is in hand; a URL whose last attempt (the third, after two
\* empty or raising ones, included) yields a title gets exactly one record and
\* no error entry.
C3_RetryStopsAtFirstTitle ==
    /\ [](/\ AttemptsMade <= 3
          /\ pc = "detail_attempt" => ~has_title(property_data))
    /\ [][(FinishesUrl /\ has_title(property_data))
            => /\ detail_results' =
                    Append(detail_results,
                           [url |-> urls[url_idx],
                            listing_type |-> property_data[1].listing_type,
                            title |-> property_data[1].title])
               /\ Truthy(property_data[1].title)
               /\ scraping_errors' = scraping_errors]_vars

C3_Witness ==
    /\ pc = "detail_loop"
    /\ retry = 2
    /\ has_title(property_data)
    /\ Len(detail_results) = 1
    /\ scraping_errors = <<>>

AllAttemptsFailed == retry = 3 /\ ~has_title(property_data)

\* C4: when all 3 attempts for a URL fail, exactly one 'extraction_failed'
\* entry with that URL is appended, no record is output for it, and the loop
\* goes on: the call returns only after every URL of the batch was processed.
C4_FailureIsLedgeredAndSkipped ==
    /\ [][(FinishesUrl /\ AllAttemptsFailed)
            => /\ scraping_errors' =
                    Append(scraping_errors,
                           [error_type |-> "extraction_failed",
                            url |-> urls[url_idx], category |-> category])
               /\ detail_results' = detail_results
               /\ url_idx' = url_idx + 1]_vars
    /\ [](pc = "detail_finish" => (AllAttemptsFailed \/ has_title(property_data)))
    /\ []((Returned /\ category \in Extractors) =>
            /\ url_idx = Len(urls) + 1
            /\ scraping_stats.urls_scraped = Len(urls))

C4_Witness ==
    /\ Returned
    /\ Len(urls) = 2
    /\ Len(detail_results) = 1
    /\ Len(scraping_errors) = 1
    /\ scraping_errors[1].url = urls[1]
    /\ detail_results[1].url = urls[2]

(***************************************************************************)
(* Claims about scrape_all_urls (checked under SpecUrls)                   *)
(***************************************************************************)
\* the page loop of the category just handled has ended
LoopClosed == loop_exit \in {"no_next_page", "break_empty", "while_condition"}

\* the list stored for the category whose loop ended last
JustStored ==
    /\ pc = "urls_for"
    /\ LoopClosed
    /\ cat_idx > 1

LastCategory == categories[cat_idx - 1]

\* C5: the URL list returned for a category holds no string twice, and is no
\* longer than the number of distinct hrefs met on the pages of the category.
C5_Deduplicated ==
    /\ \A i \in 1..Len(results) : NoDup(results[i][2])
    /\ JustStored =>
          Len(DictGet(results, LastCategory)) <= Cardinality(hrefs_seen)

C5_Witness ==
    /\ JustStored
    /\ Len(DictGet(results, LastCategory)) = 2
    /\ Cardinality(hrefs_seen) = 3
    /\ shown_twice # {}
    /\ Len(all_links) = 2

LastOutcomes(n) ==
    {page_log[k].outcome : k \in (Len(page_log) - n + 1)..Len(page_log)}

NextPageAbsent ==
    page_log # <<>> /\ page_log[Len(page_log)].next = "absent"
ThreeFailuresInARow ==
    Len(page_log) >= 3 /\ LastOutcomes(3) \subseteq PageFailures
TwoEmptyPagesInARow ==
    Len(page_log) >= 2 /\ LastOutcomes(2) = {"empty"}
LandingException == loop_exit = "landing_failed"

TruthCount(bs) == Cardinality({k \in 1..Len(bs) : bs[k]})

\* C7 (as stated): a category's discovery ends by exactly one of: next-page
\* control absent, 3 consecutive page-level failures, 2 consecutive
\* empty-card pages, an exception loading the landing page.
C7_Original ==
    (LoopClosed \/ LandingException) =>
        TruthCount(<<NextPageAbsent, ThreeFailuresInARow,
                     TwoEmptyPagesInARow, LandingException>>) = 1

\* the landing page showed cards with n >= 1 distinct urls and no next-page
\* control
SinglePage ==
    /\ page_log # <<>>
    /\ page_log[1] = PageEvent("ok", "absent")

PageUrlsOf(cat) == {ResolveHref(cat, h) : h \in hrefs_seen}

ValidRequested == SelectSeq(categories, LAMBDA c : c \in Extractors)

\* the requested valid categories, each at its first position
FirstOccurrences(cs) ==
    LET keep == {k \in 1..Len(cs) : \A j \in 1..(k - 1) : cs[j] # cs[k]}
        F[k \in 0..Len(cs)] ==
            IF k = 0 THEN <<>>
            ELSE IF k \in keep THEN Append(F[k - 1], cs[k]) ELSE F[k - 1]
    IN F[Len(cs)]

\* the step taken when the landing page of a valid category fails to load
LandingFails ==
    /\ pc = "urls_for" /\ pc' = "urls_for"
    /\ cat_idx <= Len(categories)
    /\ categories[cat_idx] \in Extractors
    /\ cat_idx' # cat_idx

\* C9: scrape_all_urls returns one entry for every valid requested category,
\* in request order; a category whose landing page cannot be loaded maps to
\* an empty list with one error entry recorded, and the loop moves on to the
\* next requested category.
C9_CategoryIsolation ==
    /\ [](pc = "urls_returned" =>
            /\ cat_idx = Len(categories) + 1
            /\ [i \in 1..Len(results) |-> results[i][1]]
                  = FirstOccurrences(ValidRequested))
    /\ [][LandingFails =>
            /\ DictHas(results', categories[cat_idx])
            /\ DictGet(results', categories[cat_idx]) = <<>>
            /\ scraping_errors' =
                  Append(scraping_errors,
                         [error_type |-> "page_load_failed",
                          url |-> full_url(categories[cat_idx]),
                          category |-> categories[cat_idx]])
            /\ cat_idx' = cat_idx + 1]_vars

C9_Witness ==
    /\ pc = "urls_returned"
    /\ categories = <<"for-sale", "for-rent">>
    /\ Len(results) = 2
    /\ results[1] = <<"for-sale", <<>>>>
    /\ Len(results[2][2]) = 2
    /\ Len(scraping_errors) = 1
    /\ scraping_errors[1].error_type = "page_load_failed"

(***************************************************************************)
(* Claims about the /scrape route (checked under SpecRoute)                *)
(***************************************************************************)
Responded(code) == pc = "responded" /\ response.status_code = code

RouteRecords(u) == Count(all_properties, LAMBDA r : r.url = u)
RouteErrors(u) == Count(scraping_errors, LAMBDA e : e.url = u)

Outcomes(u, c) ==
    Count(all_properties,
          LAMBDA r : r.url = u /\ r.listing_type = listing_type(c))
    + Count(scraping_errors,
            LAMBDA e : /\ e.error_type = "extraction_failed"
                       /\ e.url = u
                       /\ e.category = c)

DetailListsValid(r) ==
    IF r.status_code = 400 THEN r.detail[4] = valid_categories
                           ELSE r.detail[3][4] = valid_categories

\* C10 (as stated): a scrape request naming a category outside
\* {for-sale, for-rent} is answered with status 400, the detail listing the
\* valid categories.
C10_Original ==
    (pc = "responded" /\ invalid_categories(req_categories) # <<>>) =>
        /\ response.status_code = 400
        /\ DetailListsValid(response)

\* the request names a category outside {for-sale, for-rent}
NamesInvalid == \E i \in 1..Len(req_categories) :
                    req_categories[i] \notin {"for-sale", "for-rent"}

InvalidNamed == {req_categories[i] : i \in 1..Len(req_categories)}
                    \ {"for-sale", "for-rent"}

\* the detail of the validation error, as raised (400) or as re-raised (500)
NamedInResponse ==
    LET d == IF response.status_code = 400 THEN response.detail
                                           ELSE response.detail[3]
    IN Len(d) = 4 /\ Range(d[2]) = InvalidNamed

\* C11: a request naming an invalid category is answered with the validation
\* error, which names the invalid categories, before any browser session is
\* acquired: no driver is created, no scraper operation is invoked and no
\* listing page is visited in that request, even for its valid categories.
C11_ValidationBeforeSession ==
    /\ NamesInvalid =>
          /\ driver = "none"
          /\ calls = 0
          /\ visits = 0
          /\ scraping_errors = <<>>
          /\ pc \in {"ready", "responded"}
    /\ (pc = "responded" /\ NamesInvalid) =>
          /\ response.status_code \in {400, 500}
          /\ NamedInResponse

C11_Witness ==
    /\ pc = "responded"
    /\ req_categories = <<"for-sale", "bogus">>
    /\ driver = "none"
    /\ response.detail[3][2] = <<"bogus">>

(***************************************************************************)
(* Claims about a scraper session (checked under SpecSession)              *)
(***************************************************************************)
InBlock == pc \notin {"outside", "exited"}

\* a step in which the scraper drives the browser: a listing page iteration
\* or a detail page attempt
Navigates == visits' = visits + 1 \/ pc = "detail_attempt" \/ pc = "urls_for"

\* C12: a session acquired by entering the with block is released
\* (driver.quit) when the block is left, at its end and on an exception of the
\* body alike; the scraper drives the browser only between acquisition and
\* release; an exception of the body still reaches the caller.
C12_ScopedSession ==
    /\ [](/\ InBlock => driver = "live"
          /\ pc = "outside" => driver = "none"
          /\ pc = "exited" =>
                \/ driver = "quit"
                \/ driver = "none" /\ raised = "setup_failed")
    /\ [][/\ Navigates => (driver = "live" /\ driver' = "live")
          /\ (InBlock /\ pc' = "exited") => driver' = "quit"
          /\ (pc = "unwinding" /\ pc' = "exited") => raised' = "body_error"
          /\ (pc = "ready" /\ pc' = "exited") => raised' = "none"]_vars

C12_Witness ==
    /\ pc = "exited"
    /\ driver = "quit"
    /\ raised = "body_error"
    /\ calls = 2
    /\ scraping_stats.urls_scraped > 0

C12_WitnessNormalExit ==
    /\ pc = "exited"
    /\ driver = "quit"
    /\ raised = "none"
    /\ calls = 2

\* scrape_all_urls or scrape_property_details is running or has just returned
InOperation ==
    pc \in {"urls_for", "urls_page", "urls_close", "urls_returned",
            "detail_loop", "detail_attempt", "detail_finish",
            "details_returned"}

ErrorKinds == {scraping_errors[k].error_type : k \in 1..Len(scraping_errors)}

\* C13: with a live session, scrape_all_urls and scrape_property_details let
\* no exception out, whatever navigation, wait and extraction failures occur:
\* the failures end up as error entries and the operation goes on to return.
\* The only exception a scraper method sends to the caller is the one of a
\* browser that could not be started.
C13_OperationsNeverRaise ==
    /\ [](InOperation => (raised = "none" /\ driver = "live"))
    /\ [](raised \in {"none", "setup_failed", "body_error"})
    /\ [](raised = "setup_failed" => (calls = 0 /\ driver = "none"))
    /\ [][InOperation => raised' = "none"]_vars
    /\ [][raised' = "setup_failed" => pc = "outside"]_vars

C13_Witness ==
    /\ pc = "details_returned"
    /\ raised = "none"
    /\ calls = 2
    /\ {"timeout", "extraction_failed"} \subseteq ErrorKinds

C13_WitnessSetupFailed ==
    /\ pc = "exited"
    /\ raised = "setup_failed"

\* the fraction num/den lies in [0, 100]
IsPercentage(r) == r.den >= 1 /\ 0 <= r.num /\ r.num <= 100 * r.den

\* C14: in every state of a session, after any sequence of discovery and
\* detail calls, properties_extracted <= urls_scraped, the success_rate of
\* get_scraping_summary lies in [0, 100], and it is 0 when no URL has been
\* attempted.
C14_SuccessRateBounded ==
    /\ scraping_stats.properties_extracted <= scraping_stats.urls_scraped
    /\ IsPercentage(success_rate(scraping_stats))
    /\ scraping_stats.urls_scraped = 0 => success_rate(scraping_stats).num = 0
    /\ summary # <<>> =>
          /\ IsPercentage(summary[1].success_rate)
          /\ summary[1].statistics.urls_scraped = 0 =>
                summary[1].success_rate.num = 0

C14_Witness ==
    /\ summary # <<>>
    /\ calls = 2
    /\ summary[1].statistics.urls_scraped = 3
    /\ summary[1].statistics.properties_extracted = 2
    /\ summary[1].success_rate = [num |-> 200, den |-> 3]

\* the ledger after the step is the ledger before it with one entry appended
OneAppended ==
    /\ Len(scraping_errors') = Len(scraping_errors) + 1
    /\ SubSeq(scraping_errors', 1, Len(scraping_errors)) = scraping_errors

\* C15: the ledger is append-only and urls_failed counts it: a step either
\* leaves the ledger and urls_failed alone or appends exactly one entry and
\* adds one to urls_failed; no entry is removed, moved or changed; so
\* urls_failed = len(scraping_errors) in every state.
C15_LedgerAppendOnly ==
    /\ [](scraping_stats.urls_failed = Len(scraping_errors))
    /\ [][\/ /\ scraping_errors' = scraping_errors
             /\ scraping_stats'.urls_failed = scraping_stats.urls_failed
          \/ /\ OneAppended
             /\ scraping_stats'.urls_failed = scraping_stats.urls_failed + 1]_vars

C15_Witness ==
    /\ pc = "exited"
    /\ calls = 2
    /\ Len(scraping_errors) = 4
    /\ scraping_stats.urls_failed = 4
    /\ summary # <<>>

(***************************************************************************)
(* Claims about get_scraping_summary (checked under SpecLedger)            *)
(***************************************************************************)
EntriesOfKind(t) ==
    Cardinality({k \in 1..Len(scraping_errors) :
                    scraping_errors[k].error_type = t})

SumOfCounts(d) ==
    LET F[k \in 0..Len(d)] == IF k = 0 THEN 0 ELSE F[k - 1] + d[k][2]
    IN F[Len(d)]

\* C16: the summary agrees with the ledger: error_count is the number of
\* entries; errors_by_type has one key per kind present, each count the number
\* of entries of that kind, the counts summing to error_count; recent_errors
\* is the last min(5, n) entries in insertion order; taking the summary
\* changes neither the ledger nor the counters.
C16_SummaryMatchesLedger ==
    /\ [](pc = "summarised" =>
            LET sm == summary[1]
                n == Len(scraping_errors)
                m == IF n < 5 THEN n ELSE 5
            IN /\ sm.error_count = n
               /\ NoDup([i \in 1..Len(sm.errors_by_type) |->
                            sm.errors_by_type[i][1]])
               /\ DictKeys(sm.errors_by_type) = ErrorKinds
               /\ \A i \in 1..Len(sm.errors_by_type) :
                     sm.errors_by_type[i][2] =
                        EntriesOfKind(sm.errors_by_type[i][1])
               /\ SumOfCounts(sm.errors_by_type) = sm.error_count
               /\ Len(sm.recent_errors) = m
               /\ \A j \in 1..m : sm.recent_errors[j] = scraping_errors[n - m + j]
               /\ sm.statistics = scraping_stats)
    /\ [][summary' # summary =>
            (scraping_errors' = scraping_errors
             /\ scraping_stats' = scraping_stats)]_vars

C16_Witness ==
    /\ pc = "summarised"
    /\ Len(scraping_errors) = 6
    /\ Len(summary[1].recent_errors) = 5
    /\ summary[1].recent_errors[1] = scraping_errors[2]
    /\ summary[1].recent_errors[1] # scraping_errors[1]
    /\ summary[1].errors_by_type =
          <<<<"timeout", 1>>, <<"extraction_failed", 3>>,
            <<"page_load_failed", 2>>>>

(***************************************************************************)
(* Claims about the run statistics (checked under SpecRoute)               *)
(***************************************************************************)
Finalized == scraping_stats.end_time # None

\* C17 (as stated): once a detail-scraping run has set end_time, the counters
\* urls_scraped, urls_failed, properties_extracted and the start_time do not
\* change for the rest of the scraper session.
C17_Original ==
    [][Finalized =>
          /\ scraping_stats'.urls_scraped = scraping_stats.urls_scraped
          /\ scraping_stats'.urls_failed = scraping_stats.urls_failed
          /\ scraping_stats'.properties_extracted =
                scraping_stats.properties_extracted
          /\ scraping_stats'.start_time = scraping_stats.start_time]_vars

(***************************************************************************)
(* Claims about two scrapers in one process (checked under SpecPeers)      *)
(***************************************************************************)
SummaryOf(s) == get_scraping_summary(scraping_errors_of(s), scraping_stats_of(s))

\* C18: two scraper sessions in one process have independent ledgers and
\* statistics under every interleaving: a step of one session leaves the
\* ledger, the counters and the summary of the other as they were.
C18_SessionsIndependent ==
    /\ [](\A s, t \in 1..Len(scrapers) :
             s # t => /\ scrapers[s].errors # scrapers[t].errors
                      /\ scrapers[s].stats # scrapers[t].stats)
    /\ [][\A s \in 1..Len(scrapers) :
             s # actor' =>
                /\ scraping_errors_of(s)' = scraping_errors_of(s)
                /\ scraping_stats_of(s)' = scraping_stats_of(s)
                /\ SummaryOf(s)' = SummaryOf(s)]_vars

C18_Witness ==
    /\ Len(scrapers) = 2
    /\ Len(scraping_errors_of(1)) = 2
    /\ Len(scraping_errors_of(2)) = 1
    /\ scraping_stats_of(1).urls_scraped = 2
    /\ scraping_stats_of(2).urls_scraped = 1
    /\ scraping_stats_of(2).end_time # None
    /\ scraping_stats_of(1).end_time = None


(***************************************************************************)
(* Claims about _extract_number (checked under SpecNumber)                 *)
(***************************************************************************)
NumberDone == entry = "number" /\ pc = "fn_returned"

\* positions i..j of text hold digits only and the run cannot be extended
\* to the right
DigitRun(text, i, j) ==
    /\ i <= j
    /\ \A k \in i..j : IsDigit(text[k])
    /\ j = Len(text) \/ ~IsDigit(text[j + 1])

FirstDigitAt(text, i) ==
    IsDigit(text[i]) /\ \A k \in 1..(i - 1) : ~IsDigit(text[k])

\* C19: _extract_number returns, from the value without its commas, the
\* first run of digits with its optional decimal fraction: an integer when
\* no "." followed by a digit comes right after the run, a decimal value
\* otherwise; 0 for an empty value and for a value without a digit;
\* "42 m²" gives 42 and "1,234.5 sqm" gives 1234.5.
C19_ExtractNumber ==
    NumberDone =>
        LET value == fn_arg[1]
            text == SelectSeq(value, LAMBDA c : c # ",")
            ret == fn_ret[1]
        IN /\ (\A k \in 1..Len(text) : ~IsDigit(text[k])) => ret = IntNumber(0)
           /\ \A i, j \in 1..Len(text) :
                  FirstDigitAt(text, i) /\ DigitRun(text, i, j) =>
                      IF j + 2 <= Len(text) /\ text[j + 1] = "."
                                            /\ IsDigit(text[j + 2])
                        THEN \E k \in (j + 2)..Len(text) :
                                 /\ DigitRun(text, j + 2, k)
                                 /\ ret.kind = "float"
                                 /\ ret.int_part = int_of(SubSeq(text, i, j))
                                 /\ ret.frac =
                                        strip_zeros(SubSeq(text, j + 2, k))
                        ELSE ret = IntNumber(int_of(SubSeq(text, i, j)))
           /\ value = Text_42_m2 => ret = IntNumber(42)
           /\ value = Text_1234_5_sqm =>
                  ret = [kind |-> "float", int_part |-> 1234, frac |-> <<"5">>]

\* a value with a comma inside the number and a fraction has been converted
C19_Witness ==
    /\ NumberDone
    /\ fn_arg[1] = Text_1234_5_sqm
    /\ fn_ret[1].kind = "float"

C19_WitnessInteger ==
    /\ NumberDone
    /\ fn_arg[1] = <<"4", ",", "0", "m">>
    /\ fn_ret[1] = IntNumber(40)

(***************************************************************************)
(* Claims about _detect_pool_info (checked under SpecPool)                 *)
(***************************************************************************)
PoolDone == entry = "pool" /\ pc = "fn_returned"

ClaimedKeywords ==
    { <<"p", "o", "o", "l">>,
      <<"s", "w", "i", "m", "m", "i", "n", "g", " ", "p", "o", "o", "l">>,
      <<"p", "l", "u", "n", "g", "e", " ", "p", "o", "o", "l">>,
      <<"l", "a", "p", " ", "p", "o", "o", "l">>,
      <<"i", "n", "f", "i", "n", "i", "t", "y", " ", "p", "o", "o", "l">>,
      <<"j", "a", "c", "u", "z", "z", "i">> }

ClaimedPriority ==
    << <<"p", "r", "i", "v", "a", "t", "e">>,
      <<"s", "h", "a", "r", "e", "d">>,
      <<"c", "o", "m", "m", "u", "n", "a", "l">>,
      <<"i", "n", "f", "i", "n", "i", "t", "y">>,
      <<"p", "l", "u", "n", "g", "e">>,
      <<"l", "a", "p">>,
      <<"j", "a", "c", "u", "z", "z", "i">> >>

Text_Private ==
    <<"P", "r", "i", "v", "a", "t", "e">>

\* the lower-cased concatenation of the four fields of the data handed over
Concatenation ==
    LET data == fn_arg[1]
    IN lower(join(<<data.description>> \o data.key_information
                      \o data.key_features \o data.amenities))

\* C20: pool is true exactly when one of the pool keywords occurs in the
\* lower-cased concatenation of description, key_information, key_features
\* and amenities; pool_type is the title-cased first keyword of the
\* priority list that occurs in it, the empty string when none occurs;
\* the description "Enjoy the private plunge pool" gives pool = true and
\* pool_type = "Private".
C20_PoolInference ==
    PoolDone =>
        LET ret == fn_ret[1]
            text == Concatenation
            found == {k \in 1..Len(ClaimedPriority) :
                          Occurs(ClaimedPriority[k], text)}
        IN /\ ret.pool <=> \E kw \in ClaimedKeywords : Occurs(kw, text)
           /\ found = {} => ret.pool_type = <<>>
           /\ \A k \in found :
                  (\A j \in found : k <= j) =>
                      ret.pool_type = title(ClaimedPriority[k])
           /\ fn_arg[1].description = Text_Enjoy =>
                  ret.pool /\ ret.pool_type = Text_Private

\* the description of the specification, alone, has been classified
C20_Witness ==
    /\ PoolDone
    /\ fn_arg[1] = [description |-> Text_Enjoy, key_information |-> <<>>,
                    key_features |-> <<>>, amenities |-> <<>>]
    /\ fn_ret[1] = [pool |-> TRUE, pool_type |-> Text_Private]

\* a keyword written in capitals is found, and a type is reported although
\* no pool keyword occurs
C20_WitnessTypeWithoutPool ==
    /\ PoolDone
    /\ ~fn_ret[1].pool
    /\ fn_ret[1].pool_type = title(ClaimedPriority[4])
    /\ fn_arg[1].key_information # <<>>

(***************************************************************************)
(* Claims about _estimate_lease_expiry_year (checked under SpecLease)      *)
(***************************************************************************)
LeaseDone == entry = "lease" /\ pc = "fn_returned"

PositiveInteger(value) == value.kind = "int" /\ value.int_part > 0
ZeroInteger(value) == value.kind = "int" /\ value.int_part = 0
NonNumeric(value) ==
    /\ value.kind = "str"
    /\ \A k \in 1..Len(value.text) : ~IsDigit(value.text[k])

\* C21: lease_expiry_year is year_built + lease_duration when both are
\* positive integers (2015 and 25 give 2040), stays 0 when either is 0,
\* is 0 when either is a non-numeric value, and no exception leaves the
\* method.
C21_LeaseExpiry ==
    LeaseDone =>
        LET data == fn_arg[1]
            ret == fn_ret[1]
        IN /\ ret.exc = "none"
           /\ PositiveInteger(data.year_built)
                  /\ PositiveInteger(data.lease_duration) =>
                      ret.value = data.year_built.int_part
                                      + data.lease_duration.int_part
           /\ ZeroInteger(data.year_built) \/ ZeroInteger(data.lease_duration)
                  => ret.value = 0
           /\ NonNumeric(data.year_built) \/ NonNumeric(data.lease_duration)
                  => ret.value = 0
           /\ data.year_built = IntNumber(2015)
                  /\ data.lease_duration = IntNumber(25) => ret.value = 2040

\* the example of the claim has been computed
C21_Witness ==
    /\ LeaseDone
    /\ fn_arg[1].year_built = IntNumber(2015)
    /\ fn_arg[1].lease_duration = IntNumber(25)
    /\ fn_ret[1] = [value |-> 2040, exc |-> "none"]

\* a non-numeric string next to a number: int() raised and the clause set 0
C21_WitnessNonNumeric ==
    /\ LeaseDone
    /\ fn_arg[1].year_built = IntNumber(2015)
    /\ NonNumeric(fn_arg[1].lease_duration)
    /\ fn_arg[1].lease_duration.text # <<>>
    /\ fn_ret[1] = [value |-> 0, exc |-> "none"]

(***************************************************************************)
(* Claims about the steps of the page loop (checked under SpecUrls)        *)
(***************************************************************************)
\* one iteration of the while loop of scrape_all_urls is taken
PageStep == pc = "urls_page" /\ Len(page_log') = Len(page_log) + 1

\* what the iteration just taken met
StepOutcome == page_log'[Len(page_log')].outcome

\* the wait found the cards and the page was parsed
CardsPresent == StepOutcome \in {"ok", "empty"}

\* the iteration added nothing to the running list of URLs
NoNewUrls == all_links' = all_links

\* C22 (as stated): an iteration whose page shows cards but adds no new URL
\* (no URL at all, or only URLs already collected) increments the
\* consecutive-failure counter by one and does not reset it; the second
\* such page in a row ends the loop.
C22_Original ==
    [][(PageStep /\ CardsPresent /\ NoNewUrls) =>
          /\ consecutive_failures' = consecutive_failures + 1
          /\ (Len(page_log) > 0
                /\ page_log[Len(page_log)].outcome \in {"ok", "empty"}
                /\ consecutive_failures > 0) => pc' = "urls_close"]_vars

\* the failed and empty pages met since the last page that yielded a link
RECURSIVE TrailingStrikes(_)
TrailingStrikes(log) ==
    IF log = <<>> \/ log[Len(log)].outcome = "ok" THEN 0
    ELSE 1 + TrailingStrikes(SubSeq(log, 1, Len(log) - 1))

\* C23: every page whose extraction yields a non-empty list of URLs resets
\* the consecutive-failure counter to zero, whatever it was, so the counter
\* only ever counts the failures met since the last such page.
C23_SuccessResets ==
    /\ [][(PageStep /\ StepOutcome = "ok") => consecutive_failures' = 0]_vars
    /\ [](pc \in {"urls_page", "urls_close"} =>
            consecutive_failures = TrailingStrikes(page_log))

\* two failed pages, then a page with links: the counter went from 2 to 0
C23_Witness ==
    /\ pc \in {"urls_page", "urls_close"}
    /\ Len(page_log) = 3
    /\ page_log[1].outcome \in PageFailures
    /\ page_log[2].outcome \in PageFailures
    /\ page_log[3].outcome = "ok"
    /\ consecutive_failures = 0

\* C24: an iteration in which the wait for the cards times out, or the wait
\* or the parsing raises anything else, appends exactly one error entry
\* (for the page's URL and category), adds one to the consecutive-failure
\* counter, adds one to the page number, and leaves the collected URLs as
\* they were.
C24_FailedPageStep ==
    [][(PageStep /\ StepOutcome \in PageFailures) =>
          /\ scraping_errors' =
                Append(scraping_errors,
                       [error_type |-> StepOutcome,
                        url |-> PageUrl(categories[cat_idx], current_page),
                        category |-> categories[cat_idx]])
          /\ consecutive_failures' = consecutive_failures + 1
          /\ current_page' = current_page + 1
          /\ all_links' = all_links
          /\ results' = results]_vars

\* a page with links, then a page whose wait timed out: one entry, page 3
\* next, the links of page 1 still there
C24_Witness ==
    /\ pc = "urls_page"
    /\ Len(page_log) = 2
    /\ page_log[1].outcome = "ok"
    /\ page_log[2].outcome = "timeout"
    /\ Len(scraping_errors) = errors_at_landing + 1
    /\ consecutive_failures = 1
    /\ current_page = 3
    /\ all_links # <<>>

(***************************************************************************)
(* Claims about the page loop as a whole (checked under SpecLoop)          *)
(***************************************************************************)
InLoop == entry = "loop" /\ pc = "urls_page"
LoopLeft == entry = "loop" /\ pc = "urls_close"

\* the step that stores the category's result after the loop
StoresResult == LoopLeft /\ pc' = "urls_for"

\* C25: the page loop of a category terminates when every browser call
\* returns and the next-page control is offered on finitely many pages;
\* the consecutive-failure counter stays within 0..3; when it reaches 3 the
\* loop is left, the category's result is the set of URLs collected so far,
\* and no exception leaves scrape_all_urls.
C25_LoopTerminates ==
    /\ InLoop ~> LoopLeft
    /\ LoopLeft ~> (pc = "urls_returned")
    /\ [](/\ consecutive_failures \in 0..3
          /\ InLoop => consecutive_failures < 3 /\ visits < VisitBudget
          /\ consecutive_failures = 3 =>
                 pc \in {"urls_close", "urls_for"}
                     /\ loop_exit \in {"while_condition", "break_empty"}
          /\ raised = "none")
    /\ [][StoresResult =>
            LET stored == DictGet(results', categories[cat_idx])
            IN /\ Range(stored) = Range(all_links)
               /\ Len(stored) = Cardinality(Range(all_links))]_vars

\* the budget of three failures ended a loop that had collected URLs
C25_Witness ==
    /\ LoopLeft
    /\ consecutive_failures = 3
    /\ loop_exit = "while_condition"
    /\ all_links # <<>>
    /\ Len(page_log) = 4

(***************************************************************************)
(* Claims about the free-text body (checked under SpecBody)                *)
(***************************************************************************)
BodyDone == entry = "body" /\ pc = "fn_returned"

\* the section a sentinel paragraph opens
SectionOf(p) ==
    CASE p = "WE LOVE the garden" -> "amenities"
      [] p = "KEY INFORMATION" -> "key_information"
      [] p = "Key Features Include" -> "key_features"
      [] OTHER -> "none"

IsSentinel(p) == SectionOf(p) # "none"

\* the section paragraph k of ps belongs to: that of the last sentinel
\* before it, description when there is none
RECURSIVE SectionAt(_, _)
SectionAt(ps, k) ==
    IF k = 1 THEN "description"
    ELSE IF IsSentinel(ps[k - 1]) THEN SectionOf(ps[k - 1])
    ELSE SectionAt(ps, k - 1)

\* the paragraphs of ps, sentinels left out, that belong to a section
ParagraphsOf(ps, section) ==
    LET F[k \in 0..Len(ps)] ==
            IF k = 0 THEN <<>>
            ELSE IF ~IsSentinel(ps[k]) /\ SectionAt(ps, k) = section
              THEN Append(F[k - 1], ps[k])
              ELSE F[k - 1]
    IN F[Len(ps)]

\* C26 (as stated): the paragraphs of the body are partitioned by the
\* sentinel phrases in document order: those before the first sentinel make
\* the description, those after the amenities sentinel the amenities, after
\* "KEY INFORMATION" key_information, after "Key Features Include"
\* key_features; no paragraph that follows a sentinel is in description.
C26_Original ==
    BodyDone =>
        LET ps == SelectSeq(fn_arg[1].paragraphs, LAMBDA p : p # "")
            record == fn_ret[1]
        IN \A section \in {"description", "amenities", "key_information",
                           "key_features"} :
               ParagraphsOf(ps, section) # <<>> =>
                   /\ DictHas(record, section)
                   /\ DictGet(record, section) = ParagraphsOf(ps, section)

(***************************************************************************)
(* Claims about _fill_missing_fields (checked under SpecFill)              *)
(***************************************************************************)
FillDone == entry = "fill" /\ pc = "fn_returned"

AtDefault(value) ==
    \/ value.kind = "str" /\ value.text = <<>>
    \/ value.kind # "str" /\ value.int_part = 0 /\ value.frac = <<>>

\* token is the first run of characters of text without a blank
FirstTokenOf(text, token) ==
    \E i \in 1..Len(text) :
        /\ \A k \in 1..(i - 1) : text[k] = " "
        /\ token # <<>>
        /\ i + Len(token) - 1 <= Len(text)
        /\ token = SubSeq(text, i, i + Len(token) - 1)
        /\ \A k \in 1..Len(token) : token[k] # " "
        /\ i + Len(token) - 1 = Len(text) \/ text[i + Len(token)] = " "

Tokens(text) ==
    {SubSeq(text, i, j) : i \in 1..Len(text), j \in 1..Len(text)}

\* C27: back-fill changes a mapped field only when it is at its default
\* ('' or 0): a field already set is unchanged; a default field receives the
\* value of its label in features, as text for a text field and through
\* _extract_number for a numeric one (for lease_duration, of the first
\* whitespace-delimited token); a default numeric field whose label is
\* absent stays 0; a key that is not mapped is unchanged.
C27_BackFill ==
    FillDone =>
        LET data == fn_arg[1].data
            features == fn_arg[1].features
            ret == fn_ret[1]
        IN /\ Len(ret) = Len(data)
           /\ DictGet(ret, "title") = DictGet(data, "title")
           /\ \A k \in 1..Len(feature_map) :
                  LET label == feature_map[k][1]
                      key == feature_map[k][2]
                      before == DictGet(data, key)
                      after == DictGet(ret, key)
                  IN /\ ~AtDefault(before) => after = before
                     /\ AtDefault(before) /\ DictHas(features, label) =>
                            LET text == DictGet(features, label)
                            IN IF key \notin numeric_fields
                                 THEN after = StrValue(text)
                               ELSE IF key # "lease_duration"
                                 THEN after = extract_number(text)
                               ELSE \/ \E token \in Tokens(text) :
                                          /\ FirstTokenOf(text, token)
                                          /\ after = extract_number(token)
                                    \/ /\ \A i \in 1..Len(text) : text[i] = " "
                                       /\ after = IntNumber(0)
                     /\ AtDefault(before) /\ ~DictHas(features, label)
                            /\ key \in numeric_fields => after = IntNumber(0)

\* a set location was kept, a default bedrooms was filled from "3", and
\* lease_duration from the first token of "25 years"
C27_Witness ==
    /\ FillDone
    /\ DictGet(fn_arg[1].data, "location") = StrValue(Text_Canggu)
    /\ DictHas(fn_arg[1].features, "Area")
    /\ DictGet(fn_ret[1], "location") = StrValue(Text_Canggu)
    /\ DictGet(fn_arg[1].data, "bedrooms") = IntNumber(0)
    /\ DictGet(fn_ret[1], "bedrooms") = IntNumber(3)
    /\ DictGet(fn_arg[1].data, "lease_duration") = IntNumber(0)
    /\ DictGet(fn_ret[1], "lease_duration") = IntNumber(25)
    /\ DictGet(fn_ret[1], "year_built") = IntNumber(0)

(***************************************************************************)
(* Claims about the post-processing steps (checked under SpecPost)         *)
(***************************************************************************)
PostEnded == entry = "post" /\ pc \in {"fn_returned", "fn_raised"}

\* C28 (as stated): back-fill, pool inference and lease-expiry estimate run
\* once per record in that order, and a failure of one of them neither
\* keeps the other two from running nor the record from being returned.
C28_Original ==
    PostEnded =>
        /\ fn_ret[1].started = <<"fill", "pool", "lease">>
        /\ pc = "fn_returned"

(***************************************************************************)
(* Claims about the field groups (checked under SpecExtract)               *)
(***************************************************************************)
InExtract == entry = "extract" /\ pc \in {"extract_group", "extract_done"}
GroupsDone == entry = "extract" /\ pc = "extract_done"

\* the keys a group assigns
KeysOf(cat, group) ==
    CASE group = "title" -> {"title", type_key(cat)}
      [] group = "price" -> {"price_idr", "price_usd"}
      [] OTHER -> {group}

TimesAssigned(key, seq) == Cardinality({k \in 1..Len(seq) : seq[k] = key})

\* C29 (as stated): a failure while extracting a field group is caught,
\* leaves every field of that group at its default, and does not prevent
\* the extraction of the remaining groups.
C29_Original ==
    /\ entry = "extract" => pc # "fn_raised"
    /\ GroupsDone =>
          /\ Len(fn_ret[1].runs) = Len(field_groups)
          /\ \A i \in 1..Len(field_groups) :
                 fn_ret[1].runs[i].raised =>
                     \A key \in KeysOf(fn_arg[1].category, field_groups[i]) :
                         fn_ret[1].data[key] = 0

\* C29 (amended): a failure while extracting a field group is caught and
\* the remaining groups are still extracted; the field whose extraction
\* failed and the fields the group had not reached stay at their default,
\* while what the group assigned before the failure is kept.
C29_FailureIsolation ==
    /\ entry = "extract" => pc # "fn_raised"
    /\ InExtract =>
          \A i \in 1..Len(fn_ret[1].runs) :
              LET run == fn_ret[1].runs[i]
              IN \A key \in KeysOf(fn_arg[1].category, field_groups[i]) :
                     fn_ret[1].data[key] =
                         TimesAssigned(key, SubSeq(run.assignments, 1, run.done))
    /\ GroupsDone => Len(fn_ret[1].runs) = Len(field_groups)

\* the price group failed after its first key was assigned, and the
\* location, features and description groups were extracted after it
C29_Witness ==
    /\ GroupsDone
    /\ fn_ret[1].runs[2].raised
    /\ fn_ret[1].runs[2].done = 1
    /\ fn_ret[1].data["price_usd"] = 1
    /\ fn_ret[1].data["price_idr"] = 0
    /\ fn_ret[1].data["location"] = 1
    /\ fn_ret[1].data["features"] > 0
    /\ fn_ret[1].data["description"] > 0

(***************************************************************************)
(* Claims about navigate_to_next_page (checked under SpecNavigate)         *)
(***************************************************************************)
NavigateDone == entry = "navigate" /\ pc = "fn_returned"

\* selector k is the first one found clickable, every one before it having
\* timed out
FirstClickable(waits, k) ==
    /\ waits[k] = "clickable"
    /\ \A j \in 1..(k - 1) : waits[j] = "TimeoutException"

C30_WitnessError ==
    /\ NavigateDone
    /\ fn_arg[1].category = "for-rent"
    /\ fn_arg[1].waits[1] = "WebDriverException"
    /\ fn_ret[1] = [value |-> FALSE, exc |-> "none", clicked |-> 0]

(***************************************************************************)
(* Claims about the scroll loops (checked under SpecScroll)                *)
(***************************************************************************)
InScrollToBottom ==
    /\ entry = "scroll"
    /\ pc \in {"scroll_while", "fn_returned"}
    /\ fn_arg[1].fn = "_scroll_to_bottom"

\* C31: the scroll-to-bottom loop scrolls at most max_scrolls times, and it
\* scrolls no more once a measured height is not larger than the one
\* measured before it.
C31_Original ==
    InScrollToBottom =>
        LET heights == fn_ret[1].heights
        IN /\ fn_ret[1].scrolled <= fn_arg[1].max_scrolls
           /\ \A k \in 1..(Len(heights) - 1) :
                  heights[k + 1] <= heights[k] => k + 1 = Len(heights)

(***************************************************************************)
(* Claims about the page numbers of the page loop (checked under SpecUrls) *)
(***************************************************************************)
\* the value of current_page in iteration k of the category's page loop: 1
\* plus the iterations before it that ended in "current_page += 1" (a
\* failed page, or a page after which the next-page control was clicked)
LoopPage(log, k) ==
    1 + Cardinality({j \in 1..(k - 1) :
                        \/ log[j].next = "clicked"
                        \/ log[j].outcome \in PageFailures})

\* the listing page the browser displays in iteration k: the landing page
\* until a control is clicked, then the page the last clicked control was
\* for, which is the page after the loop's page number of that iteration
DisplayedPage(log, k) ==
    LET clicks == {j \in 1..(k - 1) : log[j].next = "clicked"}
    IN IF clicks = {} THEN 1
       ELSE LoopPage(log, CHOOSE j \in clicks : \A i \in clicks : i <= j) + 1

\* C32: in every iteration that extracts card URLs the loop's page number is
\* the number of the page the browser displays, also after failed pages.
C32_Original ==
    (entry = "urls" /\ pc \in {"urls_page", "urls_close"}) =>
        \A k \in 1..Len(page_log) :
            page_log[k].outcome \in {"ok", "empty"}
                => LoopPage(page_log, k) = DisplayedPage(page_log, k)

\* the page counter of the model is the one LoopPage computes
C32_LoopPageIsCurrentPage ==
    (entry = "urls" /\ pc = "urls_page") =>
        current_page = LoopPage(page_log, Len(page_log) + 1)

(***************************************************************************)
(* Claims about the URL list of a category (checked under SpecUrls)        *)
(***************************************************************************)
\* the for loop has just finished a category whose landing page was asked
\* for
CategoryDone ==
    /\ entry = "urls"
    /\ pc = "urls_for"
    /\ cat_idx > 1
    /\ loop_exit \in {"while_condition", "break_empty", "no_next_page",
                      "landing_failed"}

\* the URLs extracted from the pages of the category that were parsed
ExtractedUrls(cat) == {ResolveHref(cat, h) : h \in hrefs_seen}

\* C33: the list stored for a category holds, as a set, exactly the URLs
\* extracted from the pages of the category on which extraction succeeded.
C33_ReturnedIsUnion ==
    CategoryDone =>
        LET cat == categories[cat_idx - 1]
        IN /\ DictHas(results, cat)
           /\ Range(DictGet(results, cat)) = ExtractedUrls(cat)

\* two pages were parsed with a failed page between them, and both pages'
\* URLs are in the list
C33_Witness ==
    /\ CategoryDone
    /\ Len(page_log) = 3
    /\ page_log[1].outcome = "ok"
    /\ page_log[2].outcome \in PageFailures
    /\ page_log[3].outcome = "ok"
    /\ Cardinality(ExtractedUrls(categories[cat_idx - 1])) = 2
    /\ Len(DictGet(results, categories[cat_idx - 1])) = 2

(***************************************************************************)
(* Claims about the counters over a session (checked under SpecSession)    *)
(***************************************************************************)
DetailCallInProgress ==
    pc \in {"detail_loop", "detail_attempt", "detail_finish"}

\* the ledger entries the detail scraping of a URL leaves when it fails
DetailFailures ==
    {k \in 1..Len(scraping_errors) :
        scraping_errors[k].error_type \in
            {"extraction_failed", "property_scraping_failed"}}

\* the ledger entries URL discovery left
DiscoveryErrors ==
    {k \in 1..Len(scraping_errors) :
        scraping_errors[k].error_type \in
            PageFailures \cup {"invalid_category", "page_load_failed"}}

\* C34: whenever no scrape_property_details call is in progress,
\* urls_scraped = properties_extracted + the number of ledger entries of
\* kind extraction_failed or property_scraping_failed, whatever discovery
\* and detail calls the session made.
C34_CounterBalance ==
    (entry = "session" /\ ~DetailCallInProgress) =>
        scraping_stats.urls_scraped =
            scraping_stats.properties_extracted + Cardinality(DetailFailures)

\* a discovery call that recorded an error and a detail call with one
\* accepted and one failed URL have both returned
C34_Witness ==
    /\ entry = "session"
    /\ pc = "ready"
    /\ calls = 2
    /\ DiscoveryErrors # {}
    /\ scraping_stats.urls_scraped = 2
    /\ scraping_stats.properties_extracted = 1
    /\ Cardinality(DetailFailures) = 1

(***************************************************************************)
(* Claims about pool and pool_type together (checked under SpecPool)       *)
(***************************************************************************)
Text_jacuzzi == <<"j", "a", "c", "u", "z", "z", "i">>

\* C35 as stated: a non-empty pool_type implies pool is true.
C35_Original ==
    PoolDone => (fn_ret[1].pool_type # <<>> => fn_ret[1].pool)

\* C35 (amended): pool_type "Jacuzzi" implies pool is true, and pool_type is
\* non-empty while pool is false exactly when one of the type keywords
\* private, shared, communal, infinity, plunge, lap occurs in the text and
\* no pool keyword does.
C35_TypeWithoutPool ==
    PoolDone =>
        LET ret == fn_ret[1]
            text == Concatenation
            keyword == \E kw \in ClaimedKeywords : Occurs(kw, text)
            other_type == \E k \in 1..6 : Occurs(ClaimedPriority[k], text)
        IN /\ ret.pool_type = title(Text_jacuzzi) => ret.pool
           /\ (ret.pool_type # <<>> /\ ~ret.pool) <=> (other_type /\ ~keyword)
           /\ (ret.pool_type # <<>> /\ ~ret.pool) =>
                  ret.pool_type \in {title(ClaimedPriority[k]) : k \in 1..6}

\* the only keyword of the record is the feature "Jacuzzi": the type is
\* "Jacuzzi" and pool is true
C35_Witness ==
    /\ PoolDone
    /\ fn_arg[1].key_features # <<>>
    /\ fn_ret[1].pool_type = title(Text_jacuzzi)
    /\ fn_ret[1].pool
    /\ ~Occurs(<<"p", "o", "o", "l">>, Concatenation)

\* the description "private" alone: type "Private", no pool
C35_WitnessPrivate ==
    /\ PoolDone
    /\ fn_arg[1].description = <<"p", "r", "i", "v", "a", "t", "e">>
    /\ fn_ret[1] = [pool |-> FALSE, pool_type |-> Text_Private]

(***************************************************************************)
(* Claims about an unknown category (checked under SpecSession)            *)
(***************************************************************************)
\* the step in which scrape_property_details is called with a category
\* that has no extractor
CallsUnknownCategory ==
    /\ pc = "ready"
    /\ pc' \in {"detail_loop", "detail_attempt", "details_returned"}
    /\ category' \notin Extractors

\* C36: scrape_property_details with a category that has no extractor
\* returns an empty list at once: no page is navigated, the ledger and every
\* counter and timestamp of the statistics stay as they were.
C36_UnknownCategoryFrame ==
    [][CallsUnknownCategory =>
          /\ pc' = "details_returned"
          /\ detail_results' = <<>>
          /\ scraping_errors' = scraping_errors
          /\ scraping_stats' = scraping_stats
          /\ driver' = driver
          /\ visits' = visits]_vars

\* the call came after a detail call that had changed the statistics and
\* the ledger, and it was given a URL
C36_Witness ==
    /\ entry = "session"
    /\ pc = "details_returned"
    /\ category \notin Extractors
    /\ urls # <<>>
    /\ detail_results = <<>>
    /\ scraping_stats.urls_scraped = 2
    /\ scraping_stats.end_time = "set"
    /\ Len(scraping_errors) = 1

(***************************************************************************)
(* Claims about scrape_all_properties (checked under SpecAll)              *)
(***************************************************************************)
AllEnded == entry = "all" /\ pc \in {"all_raised", "all_returned"}

\* C37: scrape_all_properties raises ValueError before any navigation when
\* the category is unknown, and for a category with an extractor, or for no
\* category, it ends by returning its records, without raising.
C37_Original ==
    AllEnded =>
        IF fn_arg[1].category \in Extractors \cup {None}
          THEN pc = "all_returned" /\ raised = "none"
          ELSE pc = "all_raised" /\ raised = "ValueError" /\ visits = 0

\* the part about the unknown category alone
C37_UnknownCategoryRaises ==
    (AllEnded /\ fn_arg[1].category \notin Extractors \cup {None}) =>
        /\ raised = "ValueError"
        /\ visits = 0
        /\ scraping_errors = <<>>

(***************************************************************************)
(* Claims about the limit of the scrape endpoint (checked under SpecRoute) *)
(***************************************************************************)
RouteAnswered ==
    entry = "route" /\ pc = "responded" /\ response.status_code = 200

\* the URLs the route handed to scrape_property_details: each hand-over is
\* one call with one URL, which counts it in urls_scraped
HandedOver == scraping_stats.urls_scraped

\* C38: in limited mode the number of URLs handed to the detail scraper is
\* min(total_urls_found, max_properties), read as 0 when that is negative,
\* and neither it nor properties_scraped exceeds max_properties (or 0); in
\* unlimited mode every discovered URL is handed over.
C38_Original ==
    RouteAnswered =>
        LET total == Len(all_urls_with_category)
        IN IF unlimited
             THEN HandedOver = total
             ELSE /\ HandedOver = Max(0, Min(total, max_properties))
                  /\ HandedOver <= Max(0, max_properties)
                  /\ Len(all_properties) <= Max(0, max_properties)

\* what the slice does with a limit that is not negative
C38_LimitNotNegative ==
    (RouteAnswered /\ max_properties >= 0) =>
        LET total == Len(all_urls_with_category)
        IN IF unlimited
             THEN HandedOver = total
             ELSE /\ HandedOver = Min(total, max_properties)
                  /\ Len(all_properties) <= max_properties

(***************************************************************************)
(* Claims about the export report (checked under SpecSheets)               *)
(***************************************************************************)
SheetsDone == entry = "sheets" /\ pc = "fn_returned"

\* C39: the response reports status "success" with a positive
\* properties_saved only when that many records were written to the sheet.
C39_Original ==
    SheetsDone =>
        LET result == fn_ret[1].sheets_result
        IN (result.status = "success" /\ result.properties_saved > 0)
               => fn_ret[1].written = result.properties_saved

\* a write that raises is reported as an error with nothing saved
C39_FailedWriteIsError ==
    (SheetsDone /\ fn_arg[1].save_to_sheets /\ fn_arg[1].properties > 0
       /\ setup_client(fn_arg[1].credentials, fn_arg[1].authorize) # None
       /\ fn_arg[1].sheet_id # "" /\ fn_arg[1].write = "raises") =>
        /\ fn_ret[1].sheets_result.status = "error"
        /\ fn_ret[1].sheets_result.properties_saved = 0

=============================================================================
